---- MODULE Spec2Model ----
(***************************************************************************)
(* The points ledger of husseinbot2: the two Database classes              *)
(* (src/database.py and src/main.py) over the PostgreSQL tables `users`    *)
(* and `transactions`.                                                     *)
(*                                                                         *)
(* A call of a Database method is a coroutine: it runs from one `await` of *)
(* a storage call to the next.  Every storage call is one step of the      *)
(* model.  src/database.py wraps its statements in conn.transaction(): the *)
(* statements issued on `conn` write to the transaction's private overlay, *)
(* row locks are held until COMMIT, and a read through another pooled      *)
(* connection (self.get_user_points) sees committed rows only (READ        *)
(* COMMITTED).  src/main.py opens no transaction: every statement commits   *)
(* on its own.                                                             *)
(*                                                                         *)
(* On top of the ledger: the reads (balance, rank, leaderboard, guild      *)
(* statistics, transaction history), the points commands of src/main.py    *)
(* with the tier roles they hand out (check_and_assign_roles), and table   *)
(* role_settings of src/database.py.  Then the commands of src/main.py as  *)
(* the members invoke them: the check is_admin(), the Views that ask for a *)
(* confirmation (resetpoints, removechannel, clearlocks), the points       *)
(* commands interleaved at their awaits, and the channel commands over the *)
(* tables channel_list and locked_channels and the permission overwrites.  *)
(* Last, the two Database classes given the same calls, side by side.      *)
(***************************************************************************)
EXTENDS Integers, Sequences, FiniteSets, TLC

VARIABLES
    impl,           \* which Database class the process runs
    users,          \* committed rows of table users: (user_id, guild_id) -> points
    transactions,   \* committed rows of table transactions, in insertion order
    txseq,          \* the SERIAL sequence behind transactions.id
    tasks,          \* the coroutines inside a Database method
    last,           \* the call that returned (or raised) most recently
    ncalls,         \* number of calls started
    base,           \* committed store when the current batch of overlapping calls began
    batch,          \* the calls started since then
    member_roles,   \* member.roles restricted to the tier roles: (user_id, guild_id) -> names
    guild_roles,    \* guild.roles restricted to the tier roles: guild_id -> names
    role_settings,  \* rows of table role_settings
    rcall,          \* the role_settings call that returned most recently
    scan,           \* the arguments and the results of the two role scans
    view,           \* the discord.ui.View of the command that asks for a confirmation
    event,          \* the command invocation or button interaction handled most recently
    cors,           \* the points commands in flight, each at one of its awaits
    channel_list,   \* rows of table channel_list: (guild_id, channel_id)
    locked_channels,\* rows of table locked_channels
    overwrites,     \* (channel, role) -> the permissions the channel denies the role
    channels,       \* what the guild knows of each channel: cached, fetch_only, gone
    lcall,          \* the channel command handled most recently
    twin            \* a second ledger, of the other Database class, given the same calls

roleVars == <<member_roles, guild_roles, role_settings, rcall, scan>>
chanVars == <<channel_list, locked_channels, overwrites, channels, lcall>>
cmdVars == <<view, event, cors, chanVars, twin>>

vars == <<impl, users, transactions, txseq, tasks, last, ncalls, base, batch,
          member_roles, guild_roles, role_settings, rcall, scan, view, event, cors,
          channel_list, locked_channels, overwrites, channels, lcall, twin>>

----------------------------------------------------------------------------
(* Bounds of the model *)

MaxCalls == 2
MaxAmount == 2
MaxTasks == 2

Users == {1, 2}
Guilds == {1, 2}
Keys == Users \X Guilds
Tasks == 1..MaxTasks

\* admin_id: Optional[int]; None is written 0 (both are falsy in `if admin_id:`)
NoAdmin == 0
AdminId == 9
Reasons == {"bonus"}

Amounts == 1..MaxAmount
SetAmounts == (0 - 1)..MaxAmount

Impls == {"database", "main"}
Ops == {"add_points", "remove_points", "set_points", "reset_guild_points"}

----------------------------------------------------------------------------
(* Helpers *)

Max(a, b) == IF a >= b THEN a ELSE b
Min(a, b) == IF a <= b THEN a ELSE b

RECURSIVE SumAmounts(_)
SumAmounts(s) == IF s = <<>> THEN 0 ELSE s[1].amount + SumAmounts(Tail(s))

\* a write whose WHERE clause names the user only: it reaches the rows of
\* the user in every guild
PutEveryGuild(us, k, v) ==
    [kk \in (DOMAIN us) \cup {k} |-> IF kk[1] = k[1] THEN v ELSE us[kk]]

\* INSERT ... ON CONFLICT DO UPDATE / UPDATE of one row
Put(us, k, v) == [kk \in (DOMAIN us) \cup {k} |-> IF kk = k THEN v ELSE us[kk]]

\* SELECT points FROM users WHERE user_id = $1 AND guild_id = $2; 0 when no row
get_user_points(us, k) == IF k \in DOMAIN us THEN us[k] ELSE 0

GuildKeys(us, g) == {k \in DOMAIN us : k[2] = g}

\* created_at (timestamp in src/main.py) is DEFAULT CURRENT_TIMESTAMP
TxRow(id, u, g, amount, admin, reason, created_at) ==
    [id |-> id, user |-> u, guild |-> g, amount |-> amount, admin |-> admin, reason |-> reason,
     created_at |-> created_at]

\* rows of table transactions of one account / one guild
TxOf(txs, k) == SelectSeq(txs, LAMBDA r : r.user = k[1] /\ r.guild = k[2])
TxOfGuild(txs, g) == SelectSeq(txs, LAMBDA r : r.guild = g)

EmptyUsers == [k \in {} |-> 0]

----------------------------------------------------------------------------
(* A coroutine inside a Database method.  pc is the storage call it awaits  *)
(* next; cur is the local the method reads into (current_points, current,   *)
(* old_points); wr, del, ins and deltx are the uncommitted writes of its    *)
(* conn.transaction(); applied names the tables it has changed in the       *)
(* committed store so far.  began is the moment the method was entered, the *)
(* start of its transaction; limit and tie are the LIMIT of a SELECT and    *)
(* the order in which PostgreSQL returns rows that ORDER BY leaves equal;   *)
(* rows is the list a read returns.                                         *)

IdleTask ==
    [op |-> "none", u |-> 0, g |-> 0, amount |-> 0, admin |-> NoAdmin, reason |-> "",
     pc |-> "idle", cur |-> 0, ret |-> 0,
     wr |-> EmptyUsers, del |-> {}, ins |-> <<>>, deltx |-> {}, applied |-> {},
     users0 |-> EmptyUsers, txs0 |-> <<>>,
     began |-> 0, limit |-> 0, tie |-> <<>>, rows |-> <<>>]

ReadOps == {"get_user_points", "get_user_position", "get_leaderboard", "get_guild_stats",
            "get_user_transactions"}

FirstPc(im, op) ==
    CASE op = "add_points" -> "upsert"
      [] op = "remove_points" -> "read"
      [] op = "set_points" -> "upsert"
      [] op = "reset_guild_points" -> "delusers"
      [] op \in ReadOps -> "select"

\* the coroutine at the entry of a method; users0 and txs0 remember the
\* committed store at that moment
NewCall(im, op, u, g, amount, admin, reason, us, txs) ==
    [IdleTask EXCEPT !.op = op, !.u = u, !.g = g, !.amount = amount, !.admin = admin,
                     !.reason = reason, !.pc = FirstPc(im, op),
                     !.users0 = us, !.txs0 = txs]

KeyOf(p) == <<p.u, p.g>>

\* what a statement issued on conn sees inside conn.transaction(): the
\* committed rows overlaid with the transaction's own writes
ConnView(w) ==
    [k \in ((DOMAIN w.users) \ w.p.del) \cup (DOMAIN w.p.wr) |->
        IF k \in DOMAIN w.p.wr THEN w.p.wr[k] ELSE w.users[k]]

\* COMMIT at the exit of `async with conn.transaction()`
Commit(w) ==
    [w EXCEPT !.users = ConnView(w),
              !.txs = SelectSeq(w.txs, LAMBDA r : r.id \notin w.p.deltx) \o w.p.ins,
              !.p.applied = (IF (DOMAIN w.p.wr) \cup w.p.del # {} THEN {"users"} ELSE {})
                            \cup (IF w.p.ins # <<>> \/ w.p.deltx # {}
                                  THEN {"transactions"} ELSE {}),
              !.p.wr = EmptyUsers, !.p.del = {}, !.p.ins = <<>>, !.p.deltx = {},
              !.p.pc = "done"]

\* INSERT INTO transactions (...) VALUES (...) inside the transaction;
\* CURRENT_TIMESTAMP is the time at which the transaction began
DbInsertTx(w, amount) ==
    [w EXCEPT !.seq = w.seq + 1,
              !.p.ins = Append(w.p.ins,
                  TxRow(w.seq + 1, w.p.u, w.p.g, amount, w.p.admin, w.p.reason, w.p.began))]

\* a debit that takes the whole balance
amount_to_remove_all(amount, current) == current

\* src/database.py: amount_to_remove = min(amount, current_points)
amount_to_remove(amount, current) == Min(amount, current)

\* src/database.py: GREATEST(0, points - $1)
Greatest0(x) == Max(0, x)

\* src/database.py: the value set_points stores, max(0, amount)
SetStored(amount) == Max(0, amount)

\* src/database.py: the value set_points returns, `return amount`
DbSetReturn(amount) == amount

\* src/database.py Database.add_points
database_add_points(w) ==
    LET k == KeyOf(w.p) v == ConnView(w) IN
    CASE w.p.pc = "upsert" ->
            [w EXCEPT !.p.wr = Put(w.p.wr, k,
                                   IF k \in DOMAIN v THEN v[k] + w.p.amount ELSE w.p.amount),
                      !.p.pc = IF w.p.admin # NoAdmin THEN "log" ELSE "fetch"]
      [] w.p.pc = "log" ->
            [DbInsertTx(w, w.p.amount) EXCEPT !.p.pc = "fetch"]
      [] w.p.pc = "fetch" ->
            [w EXCEPT !.p.ret = v[k], !.p.pc = "commit"]
      [] w.p.pc = "commit" -> Commit(w)

\* src/database.py Database.remove_points
database_remove_points(w) ==
    LET k == KeyOf(w.p) v == ConnView(w)
        atr == amount_to_remove(w.p.amount, w.p.cur) IN
    CASE w.p.pc = "read" ->
            \* self.get_user_points: another pooled connection, committed rows
            LET c == get_user_points(w.users, k) IN
            [w EXCEPT !.p.cur = c,
                      !.p.pc = IF amount_to_remove(w.p.amount, c) > 0 THEN "update" ELSE "fetch"]
      [] w.p.pc = "update" ->
            [w EXCEPT !.p.wr = IF k \in DOMAIN v THEN Put(w.p.wr, k, Greatest0(v[k] - atr))
                                                 ELSE w.p.wr,
                      !.p.pc = IF w.p.admin # NoAdmin THEN "log" ELSE "fetch"]
      [] w.p.pc = "log" ->
            [DbInsertTx(w, 0 - atr) EXCEPT !.p.pc = "fetch"]
      [] w.p.pc = "fetch" ->
            [w EXCEPT !.p.ret = get_user_points(v, k), !.p.pc = "commit"]
      [] w.p.pc = "commit" -> Commit(w)

\* src/database.py Database.set_points
database_set_points(w) ==
    LET k == KeyOf(w.p) IN
    CASE w.p.pc = "upsert" ->
            [w EXCEPT !.p.wr = Put(w.p.wr, k, SetStored(w.p.amount)),
                      !.p.ret = DbSetReturn(w.p.amount),
                      !.p.pc = IF w.p.admin # NoAdmin THEN "read" ELSE "commit"]
      [] w.p.pc = "read" ->
            \* self.get_user_points: another pooled connection, committed rows
            LET c == get_user_points(w.users, k) IN
            [w EXCEPT !.p.cur = c,
                      !.p.pc = IF w.p.amount - c # 0 THEN "log" ELSE "commit"]
      [] w.p.pc = "log" ->
            [DbInsertTx(w, w.p.amount - w.p.cur) EXCEPT !.p.pc = "commit"]
      [] w.p.pc = "commit" -> Commit(w)

\* src/database.py Database.reset_guild_points
database_reset_guild_points(w) ==
    CASE w.p.pc = "delusers" ->
            [w EXCEPT !.p.del = GuildKeys(w.users, w.p.g), !.p.pc = "deltxs"]
      [] w.p.pc = "deltxs" ->
            [w EXCEPT !.p.deltx = {w.txs[i].id : i \in {j \in DOMAIN w.txs : w.txs[j].guild = w.p.g}},
                      !.p.pc = "commit"]
      [] w.p.pc = "commit" -> Commit(w)

----------------------------------------------------------------------------
(* src/main.py: no transaction, every statement is committed when it returns *)

\* conn.execute(INSERT INTO users ... ON CONFLICT DO UPDATE / UPDATE users), autocommit
MainWriteUser(w, k, v) ==
    [w EXCEPT !.users = Put(w.users, k, v), !.p.applied = w.p.applied \cup {"users"}]

\* an insert that puts the row before the rows recorded so far
MainInsertTxFirst(w, amount) ==
    [w EXCEPT !.seq = w.seq + 1,
              !.txs = <<TxRow(w.seq + 1, w.p.u, w.p.g, amount, w.p.admin, w.p.reason,
                              w.seq + 1)>> \o w.txs,
              !.p.applied = w.p.applied \cup {"transactions"}]

\* conn.execute(INSERT INTO transactions ...), autocommit: CURRENT_TIMESTAMP
\* is the time of the statement, which grows with the order of the inserts
MainInsertTx(w, amount) ==
    [w EXCEPT !.seq = w.seq + 1,
              !.txs = Append(w.txs,
                  TxRow(w.seq + 1, w.p.u, w.p.g, amount, w.p.admin, w.p.reason, w.seq + 1)),
              !.p.applied = w.p.applied \cup {"transactions"}]

\* new_amount without the clamp at 0
new_amount_unclamped(current, amount) == current - amount

\* src/main.py: new_amount = max(0, current - amount)
new_amount(current, amount) == Max(0, current - amount)

\* src/main.py: the amount remove_points logs, -amount
MainLoggedRemoval(amount, current) == 0 - amount

\* src/main.py Database.add_points
main_add_points(w) ==
    LET k == KeyOf(w.p) IN
    CASE w.p.pc = "upsert" ->
            [MainWriteUser(w, k, IF k \in DOMAIN w.users THEN w.users[k] + w.p.amount
                                                         ELSE w.p.amount)
                EXCEPT !.p.pc = "log"]
      [] w.p.pc = "log" ->
            [MainInsertTx(w, w.p.amount) EXCEPT !.p.pc = "fetch"]
      [] w.p.pc = "fetch" ->
            [w EXCEPT !.p.ret = get_user_points(w.users, k), !.p.pc = "done"]

\* src/main.py Database.remove_points
main_remove_points(w) ==
    LET k == KeyOf(w.p)
        na == new_amount(w.p.cur, w.p.amount) IN
    CASE w.p.pc = "read" ->
            [w EXCEPT !.p.cur = get_user_points(w.users, k), !.p.pc = "update"]
      [] w.p.pc = "update" ->
            [(IF k \in DOMAIN w.users THEN MainWriteUser(w, k, na) ELSE w)
                EXCEPT !.p.pc = "log"]
      [] w.p.pc = "log" ->
            [MainInsertTx(w, MainLoggedRemoval(w.p.amount, w.p.cur))
                EXCEPT !.p.ret = na, !.p.pc = "done"]

\* src/main.py Database.set_points
main_set_points(w) ==
    LET k == KeyOf(w.p) IN
    CASE w.p.pc = "upsert" ->
            [MainWriteUser(w, k, w.p.amount) EXCEPT !.p.pc = "read"]
      [] w.p.pc = "read" ->
            [w EXCEPT !.p.cur = get_user_points(w.users, k), !.p.pc = "log"]
      [] w.p.pc = "log" ->
            [MainInsertTx(w, w.p.amount - w.p.cur)
                EXCEPT !.p.ret = w.p.amount, !.p.pc = "done"]

\* a reset whose DELETE statements lack the WHERE guild_id = $1
main_reset_all_points(w) ==
    CASE w.p.pc = "delusers" ->
            [w EXCEPT !.users = EmptyUsers,
                      !.p.applied = w.p.applied \cup (IF DOMAIN w.users # {} THEN {"users"} ELSE {}),
                      !.p.pc = "deltxs"]
      [] w.p.pc = "deltxs" ->
            [w EXCEPT !.txs = <<>>,
                      !.p.applied = w.p.applied \cup
                          (IF w.txs # <<>> THEN {"transactions"} ELSE {}),
                      !.p.pc = "done"]

\* src/main.py Database.reset_guild_points
main_reset_guild_points(w) ==
    CASE w.p.pc = "delusers" ->
            [w EXCEPT !.users = [k \in (DOMAIN w.users) \ GuildKeys(w.users, w.p.g) |-> w.users[k]],
                      !.p.applied = w.p.applied \cup
                          (IF GuildKeys(w.users, w.p.g) # {} THEN {"users"} ELSE {}),
                      !.p.pc = "deltxs"]
      [] w.p.pc = "deltxs" ->
            [w EXCEPT !.txs = SelectSeq(w.txs, LAMBDA r : r.guild # w.p.g),
                      !.p.applied = w.p.applied \cup
                          (IF TxOfGuild(w.txs, w.p.g) # <<>> THEN {"transactions"} ELSE {}),
                      !.p.pc = "done"]

----------------------------------------------------------------------------
(* Tier roles (src/main.py) *)

\* src/main.py ROLE_SETTINGS: points required -> role name
ROLE_SETTINGS ==
    (50 :> "raider newgen") @@ (100 :> "raider scout") @@ (150 :> "raider striker") @@
    (350 :> "raider legend") @@ (500 :> "raider commander")

\* ROLE_SETTINGS.values()
TierNames == {ROLE_SETTINGS[q] : q \in DOMAIN ROLE_SETTINGS}

EmptyTable == [q \in {} |-> ""]

\* sorted(table.items()): the (points, name) pairs in ascending order of points
RECURSIVE sorted_items(_)
sorted_items(table) ==
    IF DOMAIN table = {} THEN <<>>
    ELSE LET m == CHOOSE q \in DOMAIN table : \A o \in DOMAIN table : q <= o IN
         <<[required_points |-> m, role_name |-> table[m]]>>
            \o sorted_items([o \in (DOMAIN table) \ {m} |-> table[o]])

\* sorted(table.items(), reverse=True)
sorted_items_reverse(table) ==
    LET s == sorted_items(table) IN [i \in 1..Len(s) |-> s[Len(s) + 1 - i]]

\* target_role_name = None
NoTarget == ""

\* user_role = "Нет роли", the label the leaderboard shows for no role
NoRoleLabel == "Net roli"

\* check_and_assign_roles: the scan in ascending order, which keeps the last
\* role whose threshold the points reach
RECURSIVE ascending_scan(_, _, _)
ascending_scan(items, points, target_role_name) ==
    IF items = <<>> THEN target_role_name
    ELSE ascending_scan(Tail(items), points,
                        IF points >= items[1].required_points THEN items[1].role_name
                                                              ELSE target_role_name)

\* the leaderboard command: the scan in descending order, which stops at the
\* first role whose threshold the points reach
RECURSIVE descending_scan(_, _, _)
descending_scan(items, points, user_role) ==
    IF items = <<>> THEN user_role
    ELSE IF points >= items[1].required_points THEN items[1].role_name
    ELSE descending_scan(Tail(items), points, user_role)

\* the scan of check_and_assign_roles over a table that is not sorted in
\* ascending order
target_role_unsorted(table, points) ==
    ascending_scan(sorted_items_reverse(table), points, NoTarget)

\* the role check_and_assign_roles aims at for a balance
target_role(table, points) == ascending_scan(sorted_items(table), points, NoTarget)

\* the role the leaderboard shows next to a balance
leaderboard_role(table, points) ==
    descending_scan(sorted_items_reverse(table), points, NoRoleLabel)

NoScan ==
    [table |-> EmptyTable, points |-> 0, state |-> "none",
     target_role_name |-> NoTarget, user_role |-> NoRoleLabel]

----------------------------------------------------------------------------
(* The reads: one SELECT each, on a pooled connection, outside any           *)
(* transaction                                                               *)

\* LIMIT $n
Limit(s, n) == SubSeq(s, 1, Min(n, Len(s)))

\* the place of a user in the order in which equal rows come back
Place(tie, u) == CHOOSE i \in DOMAIN tie : tie[i] = u

\* SELECT user_id, points FROM users ... ORDER BY points DESC over the rows ks
RECURSIVE order_by_points_desc(_, _, _)
order_by_points_desc(us, ks, tie) ==
    IF ks = {} THEN <<>>
    ELSE LET k == CHOOSE c \in ks : \A o \in ks :
                      \/ us[c] > us[o]
                      \/ us[c] = us[o] /\ Place(tie, c[1]) <= Place(tie, o[1]) IN
         <<[user_id |-> k[1], points |-> us[k]]>> \o order_by_points_desc(us, ks \ {k}, tie)

\* SELECT amount, reason, admin_id, created_at FROM transactions ... ORDER BY
\* created_at DESC over the rows at the indices js of txs
RECURSIVE order_by_created_at_desc(_, _)
order_by_created_at_desc(txs, js) ==
    IF js = {} THEN <<>>
    ELSE LET j == CHOOSE c \in js : \A o \in js : txs[c].created_at >= txs[o].created_at IN
         <<[amount |-> txs[j].amount, reason |-> txs[j].reason, admin_id |-> txs[j].admin,
            created_at |-> txs[j].created_at]>> \o order_by_created_at_desc(txs, js \ {j})

RECURSIVE SumPoints(_, _)
SumPoints(us, ks) ==
    IF ks = {} THEN 0
    ELSE LET k == CHOOSE c \in ks : TRUE IN us[k] + SumPoints(us, ks \ {k})

MaxPoints(us, ks) == CHOOSE m \in {us[k] : k \in ks} : \A k \in ks : us[k] <= m

\* COUNT(*) of the rows of the guild with points > (SELECT points of the
\* user): for a user without row the subquery yields NULL, and points > NULL
\* holds for no row
CountAbove(us, u, g) ==
    IF <<u, g>> \in DOMAIN us
      THEN Cardinality({k \in GuildKeys(us, g) : us[k] > us[<<u, g>>]})
      ELSE 0

\* get_user_points with INSERT ... ON CONFLICT DO NOTHING before the SELECT
select_or_create_user_points(w) ==
    [w EXCEPT !.users = Put(w.users, KeyOf(w.p), get_user_points(w.users, KeyOf(w.p))),
              !.p.ret = get_user_points(w.users, KeyOf(w.p)), !.p.pc = "done"]

\* Database.get_user_points of both classes
select_user_points(w) ==
    [w EXCEPT !.p.ret = get_user_points(w.users, KeyOf(w.p)), !.p.pc = "done"]

\* src/database.py Database.get_user_position: SELECT COUNT(*) + 1; result or 1
database_get_user_position(w) ==
    LET result == CountAbove(w.users, w.p.u, w.p.g) + 1 IN
    [w EXCEPT !.p.ret = IF result = 0 THEN 1 ELSE result, !.p.pc = "done"]

\* src/main.py Database.get_user_position: result['position'] + 1
main_get_user_position(w) ==
    [w EXCEPT !.p.ret = CountAbove(w.users, w.p.u, w.p.g) + 1, !.p.pc = "done"]

\* src/database.py Database.get_leaderboard: WHERE guild_id = $1
database_get_leaderboard(w) ==
    [w EXCEPT !.p.rows = Limit(order_by_points_desc(w.users, GuildKeys(w.users, w.p.g),
                                                    w.p.tie), w.p.limit),
              !.p.pc = "done"]

\* src/main.py Database.get_leaderboard: WHERE guild_id = $1 AND points > 0
main_get_leaderboard(w) ==
    [w EXCEPT !.p.rows = Limit(order_by_points_desc(w.users,
                                   {k \in GuildKeys(w.users, w.p.g) : w.users[k] > 0},
                                   w.p.tie), w.p.limit),
              !.p.pc = "done"]

\* Database.get_guild_stats of both classes; avg_points is kept as the
\* fraction total_points / total_users
select_guild_stats(w) ==
    LET ks == GuildKeys(w.users, w.p.g) IN
    [w EXCEPT !.p.rows = <<[total_users |-> Cardinality(ks),
                            total_points |-> SumPoints(w.users, ks),
                            avg_points |-> IF ks = {} THEN <<0, 1>>
                                           ELSE <<SumPoints(w.users, ks), Cardinality(ks)>>,
                            max_points |-> IF ks = {} THEN 0 ELSE MaxPoints(w.users, ks)]>>,
              !.p.pc = "done"]

\* src/database.py Database.get_user_transactions
database_get_user_transactions(w) ==
    [w EXCEPT !.p.rows = Limit(order_by_created_at_desc(w.txs,
                                   {j \in DOMAIN w.txs : /\ w.txs[j].user = w.p.u
                                                         /\ w.txs[j].guild = w.p.g}),
                               w.p.limit),
              !.p.pc = "done"]

----------------------------------------------------------------------------
(* One step of a call, and a call run to its end without interleaving *)

StepOf(im, w) ==
    CASE im = "database" /\ w.p.op = "add_points" -> database_add_points(w)
      [] im = "database" /\ w.p.op = "remove_points" -> database_remove_points(w)
      [] im = "database" /\ w.p.op = "set_points" -> database_set_points(w)
      [] im = "database" /\ w.p.op = "reset_guild_points" -> database_reset_guild_points(w)
      [] im = "main" /\ w.p.op = "add_points" -> main_add_points(w)
      [] im = "main" /\ w.p.op = "remove_points" -> main_remove_points(w)
      [] im = "main" /\ w.p.op = "set_points" -> main_set_points(w)
      [] im = "main" /\ w.p.op = "reset_guild_points" -> main_reset_guild_points(w)
      [] w.p.op = "get_user_points" -> select_user_points(w)
      [] im = "database" /\ w.p.op = "get_user_position" -> database_get_user_position(w)
      [] im = "main" /\ w.p.op = "get_user_position" -> main_get_user_position(w)
      [] im = "database" /\ w.p.op = "get_leaderboard" -> database_get_leaderboard(w)
      [] im = "main" /\ w.p.op = "get_leaderboard" -> main_get_leaderboard(w)
      [] w.p.op = "get_guild_stats" -> select_guild_stats(w)
      [] im = "database" /\ w.p.op = "get_user_transactions" -> database_get_user_transactions(w)

RECURSIVE RunCall(_, _)
RunCall(im, w) == IF w.p.pc = "done" THEN w ELSE RunCall(im, StepOf(im, w))

World(us, txs, seq, p) == [users |-> us, txs |-> txs, seq |-> seq, p |-> p]

\* the arguments the callers pass: main.py's commands reject amount <= 0
\* (addpoints, removepoints) and amount < 0 (setpoints) and always pass
\* ctx.author.id; database.py's set_points clamps a negative amount itself
ValidArgs(im, op, amount, admin) ==
    /\ op \in {"add_points", "remove_points"} => amount \in Amounts
    /\ op = "set_points" => amount \in SetAmounts /\ (im = "main" => amount >= 0)
    /\ op = "reset_guild_points" => amount = 0 /\ admin = NoAdmin
    /\ (im = "main" /\ op # "reset_guild_points") => admin # NoAdmin

NoLast ==
    [op |-> "none", u |-> 0, g |-> 0, amount |-> 0, admin |-> NoAdmin, reason |-> "",
     ret |-> 0, status |-> "none", users0 |-> EmptyUsers, txs0 |-> <<>>,
     held0 |-> {}, refused |-> FALSE, limit |-> 0, rows |-> <<>>]

Returned(p, status) ==
    [op |-> p.op, u |-> p.u, g |-> p.g, amount |-> p.amount, admin |-> p.admin,
     reason |-> p.reason, ret |-> p.ret, status |-> status,
     users0 |-> p.users0, txs0 |-> p.txs0, held0 |-> {}, refused |-> FALSE,
     limit |-> p.limit, rows |-> p.rows]

\* the second ledger before any call
NoTwin == [users |-> EmptyUsers, txs |-> <<>>, seq |-> 0, ret |-> 0]

\* no command has asked for a confirmation yet
NoView == [cmd |-> "none", author |-> 0, guild |-> 0, state |-> "none", locks |-> {}]

\* the text channels and the roles of a guild
Channels == {1, 2}
LockRoles == {1, 2}
\* `role: Optional[discord.Role] = None`
NoRole == 0

NoResults == [c \in Channels |-> "none"]

\* no channel command has been handled yet
NoLCall ==
    [op |-> "none", guild |-> 0, role |-> NoRole, lock_type |-> "", results |-> NoResults,
     locked0 |-> {}, channels0 |-> [c \in Channels |-> "cached"], succeeded |-> TRUE,
     before |-> [op |-> "none", role |-> NoRole, results |-> NoResults,
                 channels0 |-> [c \in Channels |-> "cached"]]]

\* no command or interaction has been handled yet
NoEvent == [kind |-> "none", cmd |-> "none", user |-> 0]

\* no command runs in this slot
IdleCor ==
    [pc |-> "idle", op |-> "none", author |-> 0, u |-> 0, g |-> 0, amount |-> 0,
     reason |-> "", points |-> 0, target_role_name |-> NoTarget, discord_role |-> FALSE,
     i |-> 0]

\* no role_settings call has returned yet
NoRCall ==
    [op |-> "none", guild_id |-> 0, points_required |-> 0, role_name |-> "",
     role_color |-> "", settings0 |-> {}, ret |-> EmptyTable]

\* the state after construction, without the arguments of the role scans
InitStore ==
    /\ impl \in Impls
    /\ users = EmptyUsers
    /\ transactions = <<>>
    /\ txseq = 0
    /\ tasks = [t \in Tasks |-> IdleTask]
    /\ last = NoLast
    /\ ncalls = 0
    /\ base = [users |-> EmptyUsers, txs |-> <<>>]
    /\ batch = <<>>
    /\ member_roles = [k \in Keys |-> {}]
    /\ guild_roles = [g \in Guilds |-> {}]
    /\ role_settings = {}
    /\ rcall = NoRCall
    /\ view = NoView
    /\ event = NoEvent
    /\ cors = [t \in Tasks |-> IdleCor]
    /\ channel_list = {}
    /\ locked_channels = {}
    /\ overwrites = [x \in Channels \X LockRoles |-> {}]
    /\ channels = [c \in Channels |-> "cached"]
    /\ lcall = NoLCall
    /\ twin = NoTwin

Init ==
    /\ InitStore
    /\ scan = NoScan

\* the process runs the bot of src/main.py
InitMain == Init /\ impl = "main"

\* the process runs the Database class of src/database.py
InitDatabase == Init /\ impl = "database"

\* a call that runs from its first statement to its return with no other
\* coroutine scheduled in between: the store and the returned value it leaves
Outcome(op, u, g, amount, admin, reason) ==
    RunCall(impl, World(users, transactions, txseq,
                        [NewCall(impl, op, u, g, amount, admin, reason, users, transactions)
                            EXCEPT !.began = ncalls + 1]))

\* a read leaves the store as it is: the calls that can follow it are those
\* that can follow the state it was issued in, and the run stops at a read
CanCall(op, amount, admin) ==
    /\ last.op \notin ReadOps
    /\ ncalls < MaxCalls
    /\ ValidArgs(impl, op, amount, admin)
    /\ \A t \in Tasks : tasks[t].pc = "idle"

add_points(u, g, amount, admin, reason) ==
    /\ CanCall("add_points", amount, admin)
    /\ LET r == Outcome("add_points", u, g, amount, admin, reason) IN
        /\ users' = r.users
        /\ transactions' = r.txs
        /\ txseq' = r.seq
        /\ last' = Returned(r.p, "ok")
    /\ ncalls' = ncalls + 1
    /\ UNCHANGED <<impl, cmdVars, tasks, base, batch>>
    /\ UNCHANGED roleVars

remove_points(u, g, amount, admin, reason) ==
    /\ CanCall("remove_points", amount, admin)
    /\ LET r == Outcome("remove_points", u, g, amount, admin, reason) IN
        /\ users' = r.users
        /\ transactions' = r.txs
        /\ txseq' = r.seq
        /\ last' = Returned(r.p, "ok")
    /\ ncalls' = ncalls + 1
    /\ UNCHANGED <<impl, cmdVars, tasks, base, batch>>
    /\ UNCHANGED roleVars

set_points(u, g, amount, admin, reason) ==
    /\ CanCall("set_points", amount, admin)
    /\ LET r == Outcome("set_points", u, g, amount, admin, reason) IN
        /\ users' = r.users
        /\ transactions' = r.txs
        /\ txseq' = r.seq
        /\ last' = Returned(r.p, "ok")
    /\ ncalls' = ncalls + 1
    /\ UNCHANGED <<impl, cmdVars, tasks, base, batch>>
    /\ UNCHANGED roleVars

\* a reset may also follow the last of the MaxCalls calls
reset_guild_points(g) ==
    /\ ncalls < MaxCalls + 1
    /\ \A t \in Tasks : tasks[t].pc = "idle"
    /\ LET r == Outcome("reset_guild_points", 0, g, 0, NoAdmin, "") IN
        /\ users' = r.users
        /\ transactions' = r.txs
        /\ txseq' = r.seq
        /\ last' = Returned(r.p, "ok")
    /\ ncalls' = ncalls + 1
    /\ UNCHANGED <<impl, cmdVars, tasks, base, batch>>
    /\ UNCHANGED roleVars

Next ==
    \/ \E u \in Users, g \in Guilds, a \in Amounts, ad \in {NoAdmin, AdminId}, r \in Reasons :
          add_points(u, g, a, ad, r)
    \/ \E u \in Users, g \in Guilds, a \in Amounts, ad \in {NoAdmin, AdminId}, r \in Reasons :
          remove_points(u, g, a, ad, r)
    \/ \E u \in Users, g \in Guilds, a \in SetAmounts, ad \in {NoAdmin, AdminId}, r \in Reasons :
          set_points(u, g, a, ad, r)
    \/ \E g \in Guilds : reset_guild_points(g)

Spec == Init /\ [][Next]_vars

----------------------------------------------------------------------------
(* Calls as coroutines: one step per storage call, other coroutines run     *)
(* between the steps                                                        *)

MaxConcCalls == 3
ConcUsers == {1}
ConcGuilds == {1}

InFlight(t) == tasks[t].pc # "idle"

\* rows on which another open transaction holds a row lock
LockedByOthers(t) ==
    UNION {(DOMAIN tasks[o].wr) \cup tasks[o].del : o \in Tasks \ {t}}

\* the statement a coroutine awaits cannot proceed while another transaction
\* holds the lock of a row it writes (src/database.py only)
Blocked(t) ==
    LET p == tasks[t] k == KeyOf(tasks[t]) IN
    /\ impl = "database"
    /\ \/ p.pc = "upsert" /\ k \in LockedByOthers(t)
       \/ p.pc = "update" /\ k \in DOMAIN users /\ k \in LockedByOthers(t)
       \/ p.pc = "delusers" /\ GuildKeys(users, p.g) \cap LockedByOthers(t) # {}

\* a command handler calls a Database method
Start(t, op, u, g, amount, admin, reason) ==
    /\ ncalls < MaxConcCalls
    /\ ValidArgs(impl, op, amount, admin)
    /\ ~InFlight(t)
    /\ LET p == [NewCall(impl, op, u, g, amount, admin, reason, users, transactions)
                    EXCEPT !.began = ncalls + 1] IN
        /\ tasks' = [tasks EXCEPT ![t] = p]
        /\ IF \A o \in Tasks : ~InFlight(o)
             THEN /\ base' = [users |-> users, txs |-> transactions]
                  /\ batch' = <<p>>
             ELSE /\ base' = base
                  /\ batch' = Append(batch, p)
    /\ ncalls' = ncalls + 1
    /\ UNCHANGED <<impl, cmdVars, users, transactions, txseq, last>>
    /\ UNCHANGED roleVars

\* the storage call a coroutine awaits completes
Step(t) ==
    /\ InFlight(t)
    /\ ~Blocked(t)
    /\ LET r == StepOf(impl, World(users, transactions, txseq, tasks[t])) IN
        /\ users' = r.users
        /\ transactions' = r.txs
        /\ txseq' = r.seq
        /\ IF r.p.pc = "done"
             THEN /\ tasks' = [tasks EXCEPT ![t] = IdleTask]
                  /\ last' = Returned(r.p, "ok")
             ELSE /\ tasks' = [tasks EXCEPT ![t] = r.p]
                  /\ last' = last
    /\ UNCHANGED <<impl, cmdVars, ncalls, base, batch>>
    /\ UNCHANGED roleVars

\* the storage call a coroutine awaits raises (connection lost, command
\* timeout): the exception leaves the method; conn.transaction() rolls the
\* open transaction back
Fail(t) ==
    /\ InFlight(t)
    /\ tasks' = [tasks EXCEPT ![t] = IdleTask]
    /\ last' = Returned(tasks[t], "failed")
    /\ UNCHANGED <<impl, cmdVars, users, transactions, txseq, ncalls, base, batch>>
    /\ UNCHANGED roleVars

StartAny(t) ==
    \E op \in Ops, u \in ConcUsers, g \in ConcGuilds, a \in SetAmounts \cup {0},
       ad \in {NoAdmin, AdminId}, r \in Reasons :
        Start(t, op, IF op = "reset_guild_points" THEN 0 ELSE u, g, a, ad,
              IF op = "reset_guild_points" THEN "" ELSE r)

NextConc ==
    \/ \E t \in Tasks : StartAny(t)
    \/ \E t \in Tasks : Step(t)

SpecConc == Init /\ [][NextConc]_vars

\* one call at a time, whose storage calls may fail
StartAlone(t) ==
    /\ \A o \in Tasks : ~InFlight(o)
    /\ StartAny(t)

NextFail ==
    \/ \E t \in Tasks : StartAlone(t)
    \/ \E t \in Tasks : Step(t)
    \/ \E t \in Tasks : Fail(t)

SpecFail == Init /\ [][NextFail]_vars

----------------------------------------------------------------------------
(* The commands of src/main.py: addpoints, removepoints, setpoints and the   *)
(* resetpoints with its two buttons.  A command runs when its author passes *)
(* the check is_admin(); on_command_error answers the others.               *)

\* the members who invoke commands and press buttons: one with the Discord
\* administrator permission, one who holds a role of ADMIN_ROLE_IDS, one
\* with neither
RoleAdminId == 8
PlainId == 7
Authors == {AdminId, RoleAdminId, PlainId}
ADMIN_ROLE_IDS == {70}
administrator == {AdminId}
author_role_ids(author) ==
    IF author = RoleAdminId THEN {70, 71} ELSE IF author = PlainId THEN {71} ELSE {}

\* a check that lets every member through
is_anyone(author) == TRUE

is_admin(author) ==
    \/ author \in administrator
    \/ \E admin_role_id \in ADMIN_ROLE_IDS : admin_role_id \in author_role_ids(author)

Invoked(cmd, author) == [kind |-> "command", cmd |-> cmd, user |-> author]
Clicked(button, user) == [kind |-> button, cmd |-> view.cmd, user |-> user]

CmdGuilds == {1}
CmdAmounts == {0 - 1, 0, 1} \cup DOMAIN ROLE_SETTINGS

\* check_and_assign_roles(member) for a member with these points who holds
\* the tier roles `held` in a guild where the tier roles `exist` exist: the
\* set of outcomes, one for every way member.remove_roles, guild.create_role
\* and member.add_roles succeed or raise.  refused tells that one of them raised.
check_and_assign_roles(points, held, exist) ==
    LET target_role_name == target_role(ROLE_SETTINGS, points)
        returned == [held |-> held, exist |-> exist, refused |-> FALSE]
        old_roles == {r \in TierNames : r # target_role_name /\ r \in exist /\ r \in held}
    IN
    IF target_role_name = NoTarget THEN {returned}
    ELSE IF target_role_name \in exist /\ target_role_name \in held THEN {returned}
    ELSE UNION {
            LET left == held \ removed IN
            (IF target_role_name \notin exist
               THEN {[held |-> left, exist |-> exist, refused |-> TRUE]}
               ELSE {})
            \cup {[held |-> left \cup {target_role_name},
                   exist |-> exist \cup {target_role_name},
                   refused |-> removed # old_roles],
                  [held |-> left, exist |-> exist \cup {target_role_name},
                   refused |-> TRUE]}
          : removed \in SUBSET old_roles}

CanCommand ==
    /\ impl = "main"
    /\ ncalls < MaxCalls
    /\ \A t \in Tasks : tasks[t].pc = "idle"

\* the command answers with the error embed and returns
Rejected(op, author, u, g, amount, reason) ==
    /\ last' = [Returned(NewCall(impl, op, u, g, amount, author, reason, users, transactions),
                         "invalid_amount")
                  EXCEPT !.held0 = member_roles[<<u, g>>]]
    /\ UNCHANGED <<users, transactions, txseq, member_roles, guild_roles>>

\* the command calls the Database method and then check_and_assign_roles
Accepted(op, author, u, g, amount, reason) ==
    LET r == Outcome(op, u, g, amount, author, reason) IN
    \E out \in check_and_assign_roles(get_user_points(r.users, <<u, g>>),
                                      member_roles[<<u, g>>], guild_roles[g]) :
        /\ users' = r.users
        /\ transactions' = r.txs
        /\ txseq' = r.seq
        /\ member_roles' = [member_roles EXCEPT ![<<u, g>>] = out.held]
        /\ guild_roles' = [guild_roles EXCEPT ![g] = out.exist]
        /\ last' = [Returned(r.p, "ok") EXCEPT !.held0 = member_roles[<<u, g>>],
                                               !.refused = out.refused]

addpoints(author, u, g, amount, reason) ==
    /\ CanCommand
    /\ is_admin(author)
    /\ event' = Invoked("addpoints", author)
    /\ IF amount <= 0 THEN Rejected("add_points", author, u, g, amount, reason)
                      ELSE Accepted("add_points", author, u, g, amount, reason)
    /\ ncalls' = ncalls + 1
    /\ UNCHANGED <<impl, view, cors, chanVars, twin, tasks, base, batch, role_settings, rcall, scan>>

removepoints(author, u, g, amount, reason) ==
    /\ CanCommand
    /\ is_admin(author)
    /\ event' = Invoked("removepoints", author)
    /\ IF amount <= 0 THEN Rejected("remove_points", author, u, g, amount, reason)
                      ELSE Accepted("remove_points", author, u, g, amount, reason)
    /\ ncalls' = ncalls + 1
    /\ UNCHANGED <<impl, view, cors, chanVars, twin, tasks, base, batch, role_settings, rcall, scan>>

setpoints(author, u, g, amount, reason) ==
    /\ CanCommand
    /\ is_admin(author)
    /\ event' = Invoked("setpoints", author)
    /\ IF amount < 0 THEN Rejected("set_points", author, u, g, amount, reason)
                     ELSE Accepted("set_points", author, u, g, amount, reason)
    /\ ncalls' = ncalls + 1
    /\ UNCHANGED <<impl, view, cors, chanVars, twin, tasks, base, batch, role_settings, rcall, scan>>

\* the commands run one at a time (CanCommand) except that other commands
\* run while a View waits for its click

\* resetpoints: the command sends the warning with the two buttons
reset_points(author, g) ==
    /\ impl = "main"
    /\ is_admin(author)
    /\ view.state = "none"
    /\ \A t \in Tasks : tasks[t].pc = "idle"
    /\ view' = [cmd |-> "resetpoints", author |-> author, guild |-> g, state |-> "open",
                locks |-> {}]
    /\ event' = Invoked("resetpoints", author)
    /\ UNCHANGED <<impl, users, transactions, txseq, tasks, last, ncalls, base, batch, roleVars, cors, chanVars, twin>>

\* a callback that acts for whoever presses the button
interaction_by_anyone(user, author) == TRUE

\* `if interaction.user != ctx.author:` answers with an ephemeral message
interaction_by_author(user, author) == user = author

\* resetpoints: a member presses the confirm button
confirm_callback(user) ==
    /\ view.cmd = "resetpoints" /\ view.state = "open"
    /\ \A t \in Tasks : tasks[t].pc = "idle"
    /\ event' = Clicked("confirm", user)
    /\ IF interaction_by_author(user, view.author)
         THEN LET r == Outcome("reset_guild_points", 0, view.guild, 0, NoAdmin, "") IN
                /\ users' = r.users
                /\ transactions' = r.txs
                /\ txseq' = r.seq
                /\ last' = Returned(r.p, "ok")
                /\ ncalls' = ncalls + 1
                /\ view' = [view EXCEPT !.state = "closed"]
         ELSE UNCHANGED <<users, transactions, txseq, last, ncalls, view>>
    /\ UNCHANGED <<impl, tasks, base, batch, roleVars, cors, chanVars, twin>>

\* resetpoints: a member presses the cancel button
cancel_callback(user) ==
    /\ view.cmd = "resetpoints" /\ view.state = "open"
    /\ event' = Clicked("cancel", user)
    /\ view' = IF interaction_by_author(user, view.author)
                  THEN [view EXCEPT !.state = "closed"] ELSE view
    /\ UNCHANGED <<impl, users, transactions, txseq, tasks, last, ncalls, base, batch, roleVars, cors, chanVars, twin>>

\* discord.ui.View(timeout=30): nobody pressed a button, the View stops
\* dispatching
on_timeout ==
    /\ view.state = "open"
    /\ event' = Clicked("timeout", 0)
    /\ view' = [view EXCEPT !.state = "closed"]
    /\ UNCHANGED <<impl, users, transactions, txseq, tasks, last, ncalls, base, batch, roleVars, cors, chanVars, twin>>

NextCmd ==
    \/ \E au \in {AdminId}, u \in Users, g \in CmdGuilds, a \in CmdAmounts, r \in Reasons :
          addpoints(au, u, g, a, r)
    \/ \E au \in {AdminId}, u \in Users, g \in CmdGuilds, a \in CmdAmounts, r \in Reasons :
          removepoints(au, u, g, a, r)
    \/ \E au \in {AdminId}, u \in Users, g \in CmdGuilds, a \in CmdAmounts, r \in Reasons :
          setpoints(au, u, g, a, r)
    \/ \E au \in {AdminId}, g \in CmdGuilds : reset_points(au, g)
    \/ \E user \in {AdminId, PlainId} : confirm_callback(user)
    \/ \E user \in {AdminId, PlainId} : cancel_callback(user)
    \/ on_timeout

SpecCmd == InitMain /\ [][NextCmd]_vars

\* resetpoints and its buttons among addpoints commands
ResetAmounts == {1, 50}

NextReset ==
    \/ \E au \in {AdminId}, u \in Users, g \in CmdGuilds, a \in ResetAmounts, r \in Reasons :
          addpoints(au, u, g, a, r)
    \/ \E au \in {AdminId}, u \in Users, g \in CmdGuilds, a \in ResetAmounts, r \in Reasons :
          setpoints(au, u, g, a, r)
    \/ \E au \in {AdminId, RoleAdminId}, g \in CmdGuilds : reset_points(au, g)
    \/ \E user \in Authors : confirm_callback(user)
    \/ \E user \in Authors : cancel_callback(user)
    \/ on_timeout

SpecReset == InitMain /\ [][NextReset]_vars

----------------------------------------------------------------------------
(* The points commands as coroutines: a command runs from one await to the  *)
(* next, and another command may run in between.  A step performs the call  *)
(* the command awaits and runs the command up to its next await.  Every     *)
(* call to Discord succeeds here.  `await ctx.send(embed)` changes nothing  *)
(* and is taken together with the Database call before it.                  *)

TierUsers == {1}
TierAmounts == {50, 100}

\* ROLE_SETTINGS.values(), in the order of the dict
role_values ==
    LET items == sorted_items(ROLE_SETTINGS) IN [j \in 1..Len(items) |-> items[j].role_name]

\* main.py:471-478 from position i of ROLE_SETTINGS.values() on: the next
\* await is remove_roles for the first other tier role the member holds,
\* or, past the loop, create_role or add_roles
removal_loop(c, i, held, exist) ==
    LET js == {j \in i..Len(role_values) :
                  /\ role_values[j] # c.target_role_name
                  /\ role_values[j] \in exist
                  /\ role_values[j] \in held}
    IN
    IF js # {} THEN [c EXCEPT !.pc = "remove_roles",
                              !.i = CHOOSE j \in js : \A o \in js : j <= o]
    ELSE IF ~c.discord_role THEN [c EXCEPT !.pc = "create_role"]
    ELSE [c EXCEPT !.pc = "add_roles"]

ValidAmount(op, amount) == IF op = "set_points" THEN amount >= 0 ELSE amount > 0

CommandOf(op) ==
    IF op = "add_points" THEN "addpoints"
    ELSE IF op = "remove_points" THEN "removepoints" ELSE "setpoints"

\* the command is invoked and runs up to `await db.<op>(...)`
invoke(t, op, author, u, g, amount, reason) ==
    /\ impl = "main"
    /\ is_admin(author)
    /\ ncalls < MaxCalls
    /\ cors[t].pc = "idle"
    /\ event' = Invoked(CommandOf(op), author)
    /\ IF ValidAmount(op, amount)
         THEN /\ cors' = [cors EXCEPT ![t] =
                            [IdleCor EXCEPT !.pc = "database", !.op = op, !.author = author,
                                            !.u = u, !.g = g, !.amount = amount,
                                            !.reason = reason]]
              /\ UNCHANGED last
         ELSE /\ Rejected(op, author, u, g, amount, reason)
              /\ UNCHANGED cors
    /\ ncalls' = ncalls + 1
    /\ UNCHANGED <<impl, users, transactions, txseq, tasks, base, batch, view, roleVars, chanVars, twin>>

\* db.add_points / remove_points / set_points returns; the embed is sent;
\* check_and_assign_roles begins and awaits db.get_user_points
await_database(t) ==
    /\ cors[t].pc = "database"
    /\ LET c == cors[t]
           r == Outcome(c.op, c.u, c.g, c.amount, c.author, c.reason) IN
        /\ users' = r.users
        /\ transactions' = r.txs
        /\ txseq' = r.seq
        /\ last' = [Returned(r.p, "ok") EXCEPT !.held0 = member_roles[<<c.u, c.g>>]]
        /\ cors' = [cors EXCEPT ![t].pc = "get_user_points"]
    /\ UNCHANGED <<impl, tasks, ncalls, base, batch, view, event, roleVars, chanVars, twin>>

\* db.get_user_points returns; the target role is chosen (main.py:457-468)
\* and the removal loop begins
await_get_user_points(t) ==
    /\ cors[t].pc = "get_user_points"
    /\ LET c == cors[t]
           k == <<c.u, c.g>>
           points == get_user_points(users, k)
           target_role_name == target_role(ROLE_SETTINGS, points)
           discord_role == target_role_name \in guild_roles[c.g]
           chosen == [c EXCEPT !.points = points, !.target_role_name = target_role_name,
                               !.discord_role = discord_role] IN
        cors' = [cors EXCEPT ![t] =
                    IF target_role_name = NoTarget THEN IdleCor
                    ELSE IF discord_role /\ target_role_name \in member_roles[k] THEN IdleCor
                    ELSE removal_loop(chosen, 1, member_roles[k], guild_roles[c.g])]
    /\ UNCHANGED <<impl, users, transactions, txseq, tasks, last, ncalls, base, batch,
                   view, event, roleVars, chanVars, twin>>

\* member.remove_roles(old_role) returns; the loop goes on
await_remove_roles(t) ==
    /\ cors[t].pc = "remove_roles"
    /\ LET c == cors[t]
           k == <<c.u, c.g>>
           left == member_roles[k] \ {role_values[c.i]} IN
        /\ member_roles' = [member_roles EXCEPT ![k] = left]
        /\ cors' = [cors EXCEPT ![t] = removal_loop(c, c.i + 1, left, guild_roles[c.g])]
    /\ UNCHANGED <<impl, users, transactions, txseq, tasks, last, ncalls, base, batch,
                   view, event, chanVars, twin, guild_roles, role_settings, rcall, scan>>

\* guild.create_role(name=target_role_name) returns
await_create_role(t) ==
    /\ cors[t].pc = "create_role"
    /\ guild_roles' = [guild_roles EXCEPT ![cors[t].g] = @ \cup {cors[t].target_role_name}]
    /\ cors' = [cors EXCEPT ![t].pc = "add_roles"]
    /\ UNCHANGED <<impl, users, transactions, txseq, tasks, last, ncalls, base, batch,
                   view, event, chanVars, twin, member_roles, role_settings, rcall, scan>>

\* member.add_roles(discord_role) returns; the notification is sent
await_add_roles(t) ==
    /\ cors[t].pc = "add_roles"
    /\ member_roles' = [member_roles EXCEPT ![<<cors[t].u, cors[t].g>>] =
                            @ \cup {cors[t].target_role_name}]
    /\ cors' = [cors EXCEPT ![t] = IdleCor]
    /\ UNCHANGED <<impl, users, transactions, txseq, tasks, last, ncalls, base, batch,
                   view, event, chanVars, twin, guild_roles, role_settings, rcall, scan>>

NextTier ==
    \/ \E t \in Tasks, op \in {"add_points", "remove_points", "set_points"}, au \in {AdminId},
          u \in TierUsers, g \in CmdGuilds, a \in TierAmounts, r \in Reasons :
          invoke(t, op, au, u, g, a, r)
    \/ \E t \in Tasks : await_database(t)
    \/ \E t \in Tasks : await_get_user_points(t)
    \/ \E t \in Tasks : await_remove_roles(t)
    \/ \E t \in Tasks : await_create_role(t)
    \/ \E t \in Tasks : await_add_roles(t)

SpecTier == InitMain /\ [][NextTier]_vars

----------------------------------------------------------------------------
(* The channel commands of src/main.py: the list of channels (table         *)
(* channel_list), the locks (table locked_channels) and the permission      *)
(* overwrites the locks stand for.  A command runs from its invocation to   *)
(* its last message with no other command in between; a View waits for its *)
(* click while other commands run.                                          *)

MaxCmds == 3

LockTypes == {"send", "view", "both"}
LockInputs == {"send", "VIEW", "other"}
NoChannel == 0

\* lock_type.lower()
Lower(lock_type) == IF lock_type = "VIEW" THEN "view" ELSE lock_type

\* the permissions apply_channel_lock sets to False
Denies(lock_type) ==
    IF lock_type = "send" THEN {"send_messages", "add_reactions", "attach_files"}
    ELSE IF lock_type = "view" THEN {"read_messages", "send_messages"}
    ELSE IF lock_type = "both"
        THEN {"read_messages", "send_messages", "add_reactions", "attach_files"}
    ELSE {}

\* INSERT INTO channel_list ... ON CONFLICT (guild_id, channel_id) DO UPDATE
add_channel_to_list(cl, guild_id, channel_id) == cl \cup {<<guild_id, channel_id>>}

\* DELETE FROM channel_list, of one channel or of the guild
remove_channel_from_list(cl, guild_id, channel_id) ==
    IF channel_id # NoChannel THEN cl \ {<<guild_id, channel_id>>}
                              ELSE {x \in cl : x[1] # guild_id}

get_channel_list(cl, guild_id) == {x[2] : x \in {y \in cl : y[1] = guild_id}}

LockRow(guild_id, channel_id, role_id, lock_type) ==
    [guild_id |-> guild_id, channel_id |-> channel_id, role_id |-> role_id,
     lock_type |-> lock_type]

\* INSERT INTO locked_channels ... ON CONFLICT (guild_id, channel_id, role_id)
\* DO UPDATE SET lock_type
add_channel_lock(lc, guild_id, channel_id, role_id, lock_type) ==
    {x \in lc : ~(x.guild_id = guild_id /\ x.channel_id = channel_id /\ x.role_id = role_id)}
        \cup {LockRow(guild_id, channel_id, role_id, lock_type)}

\* Database.remove_channel_lock: `if role_id:` one row, else the rows of the channel
db_remove_channel_lock(lc, guild_id, channel_id, role_id) ==
    IF role_id # NoRole
        THEN {x \in lc : ~(x.guild_id = guild_id /\ x.channel_id = channel_id
                            /\ x.role_id = role_id)}
        ELSE {x \in lc : ~(x.guild_id = guild_id /\ x.channel_id = channel_id)}

get_channel_locks(lc, guild_id) == {x \in lc : x.guild_id = guild_id}
get_locks_of_channel(lc, guild_id, channel_id) ==
    {x \in lc : x.guild_id = guild_id /\ x.channel_id = channel_id}

clear_all_locks(lc, guild_id) == {x \in lc : x.guild_id # guild_id}

\* channel.set_permissions(role, overwrite=overwrites) went through
apply_channel_lock(ow, channel, role, lock_type) ==
    [ow EXCEPT ![<<channel, role>>] = @ \cup Denies(lock_type)]

\* channel.set_permissions(role, overwrite=None) went through
remove_channel_lock(ow, channel, role) == [ow EXCEPT ![<<channel, role>>] = {}]

\* guild.get_channel(id), and the fetch_channel that lock_all_channels_in_list
\* tries after it
get_channel(c) == channels[c] = "cached"
get_or_fetch_channel(c) == channels[c] \in {"cached", "fetch_only"}

FirstOf(cs) == CHOOSE c \in cs : \A o \in cs : c <= o

\* the loop of lock_all_channels_in_list over the channels cs still to do;
\* set_permissions raises Forbidden on the channels in `denied`
RECURSIVE lock_loop(_, _, _, _, _, _)
lock_loop(cs, guild_id, role, lock_type, denied, st) ==
    IF cs = {} THEN st
    ELSE LET c == FirstOf(cs)
             done ==
                IF get_or_fetch_channel(c)
                    THEN [locked |-> add_channel_lock(st.locked, guild_id, c, role, lock_type),
                          ow |-> IF c \in denied THEN st.ow
                                 ELSE apply_channel_lock(st.ow, c, role, lock_type),
                          results |-> [st.results EXCEPT ![c] =
                                          IF c \in denied THEN "permission_error" ELSE "locked"]]
                    ELSE [st EXCEPT !.results[c] = "not_found"]
         IN lock_loop(cs \ {c}, guild_id, role, lock_type, denied, done)

lock_all_channels_in_list(guild_id, role, lock_type, denied) ==
    lock_loop(get_channel_list(channel_list, guild_id), guild_id, role, lock_type, denied,
              [locked |-> locked_channels, ow |-> overwrites, results |-> NoResults])

\* remove_channel_lock(channel, role_obj) for every lock of the channel
RECURSIVE unlock_roles(_, _, _, _)
unlock_roles(rs, c, denied, ow) ==
    IF rs = {} THEN ow
    ELSE LET r == FirstOf(rs) IN
         unlock_roles(rs \ {r}, c, denied,
                      IF c \in denied THEN ow ELSE remove_channel_lock(ow, c, r))

\* the loop of unlock_all_channels_in_list
RECURSIVE unlock_loop(_, _, _, _, _)
unlock_loop(cs, guild_id, role, denied, st) ==
    IF cs = {} THEN st
    ELSE LET c == FirstOf(cs)
             done ==
                IF ~get_channel(c) THEN [st EXCEPT !.results[c] = "skipped"]
                ELSE IF role # NoRole
                    THEN [locked |-> db_remove_channel_lock(st.locked, guild_id, c, role),
                          ow |-> IF c \in denied THEN st.ow
                                 ELSE remove_channel_lock(st.ow, c, role),
                          results |-> [st.results EXCEPT ![c] =
                                          IF c \in denied THEN "permission_error"
                                                          ELSE "unlocked"]]
                    ELSE [locked |-> db_remove_channel_lock(st.locked, guild_id, c, NoRole),
                          ow |-> unlock_roles(
                                    {x.role_id : x \in get_locks_of_channel(st.locked, guild_id, c)},
                                    c, denied, st.ow),
                          results |-> [st.results EXCEPT ![c] = "unlocked"]]
         IN unlock_loop(cs \ {c}, guild_id, role, denied, done)

unlock_all_channels_in_list(guild_id, role, denied) ==
    unlock_loop(get_channel_list(channel_list, guild_id), guild_id, role, denied,
                [locked |-> locked_channels, ow |-> overwrites, results |-> NoResults])

\* the loop of clear_locks.confirm_callback over the locks read by the command
RECURSIVE clear_loop(_, _, _)
clear_loop(locks, denied, ow) ==
    IF locks = {} THEN ow
    ELSE LET lock == CHOOSE x \in locks : TRUE IN
         clear_loop(locks \ {lock}, denied,
                    IF get_channel(lock.channel_id) /\ lock.channel_id \notin denied
                        THEN remove_channel_lock(ow, lock.channel_id, lock.role_id)
                        ELSE ow)

CanChannelCommand ==
    /\ impl = "main"
    /\ ncalls < MaxCmds
    /\ \A t \in Tasks : tasks[t].pc = "idle" /\ cors[t].pc = "idle"

Handled(op, g, role, lock_type, results, succeeded) ==
    [op |-> op, guild |-> g, role |-> role, lock_type |-> lock_type, results |-> results,
     locked0 |-> locked_channels, channels0 |-> channels, succeeded |-> succeeded,
     before |-> [op |-> lcall.op, role |-> lcall.role, results |-> lcall.results,
                 channels0 |-> lcall.channels0]]

ledgerVars ==
    <<impl, users, transactions, txseq, tasks, last, base, batch, roleVars, cors, twin>>

\* addchannel: the TextChannel converter finds cached channels only
add_channel(author, g, c) ==
    /\ CanChannelCommand
    /\ is_admin(author)
    /\ get_channel(c)
    /\ channel_list' = add_channel_to_list(channel_list, g, c)
    /\ event' = Invoked("addchannel", author)
    /\ lcall' = Handled("addchannel", g, NoRole, "", NoResults, TRUE)
    /\ ncalls' = ncalls + 1
    /\ UNCHANGED <<ledgerVars, view, locked_channels, overwrites, channels>>

\* removechannel: with a channel the row is deleted; without one the command
\* asks for a confirmation
remove_channel(author, g, c) ==
    /\ CanChannelCommand
    /\ is_admin(author)
    /\ c # NoChannel => get_channel(c)
    /\ c = NoChannel => view.state = "none"
    /\ IF c # NoChannel
         THEN /\ channel_list' = remove_channel_from_list(channel_list, g, c)
              /\ UNCHANGED view
         ELSE /\ view' = [cmd |-> "removechannel", author |-> author, guild |-> g,
                           state |-> "open", locks |-> {}]
              /\ UNCHANGED channel_list
    /\ event' = Invoked("removechannel", author)
    /\ lcall' = Handled("removechannel", g, NoRole, "", NoResults, TRUE)
    /\ ncalls' = ncalls + 1
    /\ UNCHANGED <<ledgerVars, locked_channels, overwrites, channels>>

remove_channel_confirm(user) ==
    /\ view.cmd = "removechannel" /\ view.state = "open"
    /\ event' = Clicked("confirm", user)
    /\ IF interaction_by_author(user, view.author)
         THEN /\ channel_list' = remove_channel_from_list(channel_list, view.guild, NoChannel)
              /\ view' = [view EXCEPT !.state = "closed"]
         ELSE UNCHANGED <<channel_list, view>>
    /\ UNCHANGED <<ledgerVars, ncalls, locked_channels, overwrites, channels, lcall>>

remove_channel_cancel(user) ==
    /\ view.cmd = "removechannel" /\ view.state = "open"
    /\ event' = Clicked("cancel", user)
    /\ view' = IF interaction_by_author(user, view.author)
                  THEN [view EXCEPT !.state = "closed"] ELSE view
    /\ UNCHANGED <<ledgerVars, ncalls, chanVars>>

\* lockchannels
lock_channels(author, g, role, lock_type, denied) ==
    /\ CanChannelCommand
    /\ is_admin(author)
    /\ event' = Invoked("lockchannels", author)
    /\ IF Lower(lock_type) \notin LockTypes
         THEN /\ lcall' = Handled("lockchannels", g, role, Lower(lock_type), NoResults, TRUE)
              /\ UNCHANGED <<locked_channels, overwrites>>
         ELSE LET r == lock_all_channels_in_list(g, role, Lower(lock_type), denied) IN
              /\ locked_channels' = r.locked
              /\ overwrites' = r.ow
              /\ lcall' = Handled("lockchannels", g, role, Lower(lock_type), r.results,
                                   \A c \in Channels : r.results[c] # "permission_error")
    /\ ncalls' = ncalls + 1
    /\ UNCHANGED <<ledgerVars, view, channel_list, channels>>

\* unlockchannels, for one role or (NoRole) for every lock of the listed channels
unlock_channels(author, g, role, denied) ==
    /\ CanChannelCommand
    /\ is_admin(author)
    /\ event' = Invoked("unlockchannels", author)
    /\ LET r == unlock_all_channels_in_list(g, role, denied) IN
        /\ locked_channels' = r.locked
        /\ overwrites' = r.ow
        /\ lcall' = Handled("unlockchannels", g, role, "", r.results,
                             \A c \in Channels : r.results[c] # "permission_error")
    /\ ncalls' = ncalls + 1
    /\ UNCHANGED <<ledgerVars, view, channel_list, channels>>

\* clearlocks: the command reads the locks and asks for a confirmation (one
\* View in a run)
clear_locks(author, g) ==
    /\ impl = "main"
    /\ \A t \in Tasks : tasks[t].pc = "idle" /\ cors[t].pc = "idle"
    /\ is_admin(author)
    /\ view.state = "none"
    /\ event' = Invoked("clearlocks", author)
    /\ LET locks == get_channel_locks(locked_channels, g) IN
        view' = IF locks = {} THEN view
                ELSE [cmd |-> "clearlocks", author |-> author, guild |-> g,
                      state |-> "open", locks |-> locks]
    /\ lcall' = Handled("clearlocks", g, NoRole, "", NoResults, TRUE)
    /\ UNCHANGED <<ledgerVars, ncalls, channel_list, locked_channels, overwrites, channels>>

clear_locks_confirm(user, denied) ==
    /\ view.cmd = "clearlocks" /\ view.state = "open"
    /\ \A t \in Tasks : tasks[t].pc = "idle" /\ cors[t].pc = "idle"
    /\ event' = Clicked("confirm", user)
    /\ IF interaction_by_author(user, view.author)
         THEN /\ locked_channels' = clear_all_locks(locked_channels, view.guild)
              /\ overwrites' = clear_loop(view.locks, denied, overwrites)
              /\ lcall' = Handled("clearlocks_confirm", view.guild, NoRole, "", NoResults,
                                   \A x \in view.locks : x.channel_id \notin denied)
              /\ view' = [view EXCEPT !.state = "closed"]
         ELSE UNCHANGED <<locked_channels, overwrites, lcall, view>>
    /\ UNCHANGED <<ledgerVars, ncalls, channel_list, channels>>

clear_locks_cancel(user) ==
    /\ view.cmd = "clearlocks" /\ view.state = "open"
    /\ event' = Clicked("cancel", user)
    /\ view' = IF interaction_by_author(user, view.author)
                  THEN [view EXCEPT !.state = "closed"] ELSE view
    /\ UNCHANGED <<ledgerVars, ncalls, chanVars>>

\* on_command_error: the check is_admin() failed, the bot answers with the
\* "not enough rights" embed
on_command_error(author, cmd) ==
    /\ impl = "main"
    /\ ncalls < MaxCmds
    /\ ~is_admin(author)
    /\ event' = [kind |-> "check_failure", cmd |-> cmd, user |-> author]
    /\ ncalls' = ncalls + 1
    /\ UNCHANGED <<ledgerVars, view, chanVars>>

\* the guild's channel cache loses a channel (the bot reconnects), or the
\* channel is deleted
cache_event(c, status) ==
    /\ \/ channels[c] = "cached" /\ status = "fetch_only"
       \/ channels[c] # "gone" /\ status = "gone"
    /\ channels' = [channels EXCEPT ![c] = status]
    /\ UNCHANGED <<ledgerVars, ncalls, view, event, channel_list, locked_channels,
                   overwrites, lcall>>

\* lockchannels and unlockchannels on the list
NextLock ==
    \/ \E g \in CmdGuilds, c \in Channels : add_channel(AdminId, g, c)
    \/ \E g \in CmdGuilds, role \in {1}, lt \in LockInputs, denied \in SUBSET Channels :
          lock_channels(AdminId, g, role, lt, denied)
    \/ \E g \in CmdGuilds, role \in {1, NoRole}, denied \in SUBSET Channels :
          unlock_channels(AdminId, g, role, denied)
    \/ \E c \in Channels, st \in {"fetch_only", "gone"} : cache_event(c, st)

SpecLock == InitMain /\ [][NextLock]_vars

\* clearlocks and its buttons among addchannel and lockchannels commands
NextClear ==
    \/ \E g \in CmdGuilds, c \in Channels : add_channel(AdminId, g, c)
    \/ \E g \in CmdGuilds, role \in LockRoles, lt \in {"send", "view"},
          denied \in SUBSET Channels : lock_channels(AdminId, g, role, lt, denied)
    \/ \E au \in {AdminId, RoleAdminId}, g \in CmdGuilds : clear_locks(au, g)
    \/ \E user \in Authors, denied \in SUBSET Channels : clear_locks_confirm(user, denied)
    \/ \E user \in Authors : clear_locks_cancel(user)
    \/ on_timeout

SpecClear == InitMain /\ [][NextClear]_vars

\* the commands behind @is_admin() that change a table or a permission,
\* invoked by any member
GatedCommands ==
    {"addpoints", "removepoints", "setpoints", "resetpoints", "addchannel",
     "removechannel", "lockchannels", "unlockchannels", "clearlocks"}
GateUsers == {1}
GateAmounts == {1}
GateChannels == {1}
GateRoles == {1}

NextGate ==
    \/ \E au \in Authors, u \in GateUsers, g \in CmdGuilds, a \in GateAmounts, r \in Reasons :
          addpoints(au, u, g, a, r)
    \/ \E au \in Authors, u \in GateUsers, g \in CmdGuilds, a \in GateAmounts, r \in Reasons :
          removepoints(au, u, g, a, r)
    \/ \E au \in Authors, u \in GateUsers, g \in CmdGuilds, a \in GateAmounts, r \in Reasons :
          setpoints(au, u, g, a, r)
    \/ \E au \in Authors, g \in CmdGuilds : reset_points(au, g)
    \/ \E user \in Authors : confirm_callback(user)
    \/ \E user \in Authors : cancel_callback(user)
    \/ \E au \in Authors, g \in CmdGuilds, c \in GateChannels : add_channel(au, g, c)
    \/ \E au \in Authors, g \in CmdGuilds, c \in GateChannels \cup {NoChannel} :
          remove_channel(au, g, c)
    \/ \E user \in Authors : remove_channel_confirm(user)
    \/ \E user \in Authors : remove_channel_cancel(user)
    \/ \E au \in Authors, g \in CmdGuilds, role \in GateRoles, lt \in {"send"} :
          lock_channels(au, g, role, lt, {})
    \/ \E au \in Authors, g \in CmdGuilds, role \in GateRoles \cup {NoRole} :
          unlock_channels(au, g, role, {})
    \/ \E au \in Authors, g \in CmdGuilds : clear_locks(au, g)
    \/ \E user \in Authors : clear_locks_confirm(user, {})
    \/ \E user \in Authors : clear_locks_cancel(user)
    \/ on_timeout
    \/ \E au \in Authors, cmd \in GatedCommands : on_command_error(au, cmd)

SpecGate == InitMain /\ [][NextGate]_vars

----------------------------------------------------------------------------
(* src/database.py called directly: its methods take the amount as the      *)
(* caller passes it, of any sign                                             *)

AnyAmounts == (0 - MaxAmount)..MaxAmount

CanCallAny ==
    /\ impl = "database"
    /\ ncalls < MaxCalls
    /\ \A t \in Tasks : tasks[t].pc = "idle"

any_add_points(u, g, amount, admin, reason) ==
    /\ CanCallAny
    /\ LET r == Outcome("add_points", u, g, amount, admin, reason) IN
        /\ users' = r.users
        /\ transactions' = r.txs
        /\ txseq' = r.seq
        /\ last' = Returned(r.p, "ok")
    /\ ncalls' = ncalls + 1
    /\ UNCHANGED <<impl, cmdVars, tasks, base, batch>>
    /\ UNCHANGED roleVars

any_remove_points(u, g, amount, admin, reason) ==
    /\ CanCallAny
    /\ LET r == Outcome("remove_points", u, g, amount, admin, reason) IN
        /\ users' = r.users
        /\ transactions' = r.txs
        /\ txseq' = r.seq
        /\ last' = Returned(r.p, "ok")
    /\ ncalls' = ncalls + 1
    /\ UNCHANGED <<impl, cmdVars, tasks, base, batch>>
    /\ UNCHANGED roleVars

any_set_points(u, g, amount, admin, reason) ==
    /\ CanCallAny
    /\ LET r == Outcome("set_points", u, g, amount, admin, reason) IN
        /\ users' = r.users
        /\ transactions' = r.txs
        /\ txseq' = r.seq
        /\ last' = Returned(r.p, "ok")
    /\ ncalls' = ncalls + 1
    /\ UNCHANGED <<impl, cmdVars, tasks, base, batch>>
    /\ UNCHANGED roleVars

NextAny ==
    \/ \E u \in ConcUsers, g \in ConcGuilds, a \in AnyAmounts, ad \in {NoAdmin, AdminId},
          r \in Reasons : any_add_points(u, g, a, ad, r)
    \/ \E u \in ConcUsers, g \in ConcGuilds, a \in AnyAmounts, ad \in {NoAdmin, AdminId},
          r \in Reasons : any_remove_points(u, g, a, ad, r)
    \/ \E u \in ConcUsers, g \in ConcGuilds, a \in AnyAmounts, ad \in {NoAdmin, AdminId},
          r \in Reasons : any_set_points(u, g, a, ad, r)

SpecAny == InitDatabase /\ [][NextAny]_vars

----------------------------------------------------------------------------
(* The two role scans of src/main.py applied to a table and a balance *)

\* the dicts made of entries of ROLE_SETTINGS
Tables == {[q \in D |-> ROLE_SETTINGS[q]] : D \in SUBSET (DOMAIN ROLE_SETTINGS)}

\* balances at, just below and just above 0 and every threshold
ScanPoints == {q + d : q \in (DOMAIN ROLE_SETTINGS) \cup {0}, d \in {0 - 1, 0, 1}}

InitScan ==
    /\ InitStore
    /\ scan \in {[NoScan EXCEPT !.table = t, !.points = q, !.state = "args"] :
                    t \in Tables, q \in ScanPoints}

role_scans ==
    /\ scan.state = "args"
    /\ scan' = [scan EXCEPT !.state = "done",
                            !.target_role_name = target_role(scan.table, scan.points),
                            !.user_role = leaderboard_role(scan.table, scan.points)]
    /\ UNCHANGED <<impl, cmdVars, users, transactions, txseq, tasks, last, ncalls, base, batch,
                   member_roles, guild_roles, role_settings, rcall>>

NextScan == role_scans

SpecScan == InitScan /\ [][NextScan]_vars

----------------------------------------------------------------------------
(* The reads issued between the calls *)

\* the values of limit: one cuts the list short, the other does not
Limits == {1, 2}

\* the guild the reads are issued for; the rows of the other guild are the
\* rows they have to leave out
ReadGuilds == {1}

\* the orders in which PostgreSQL may return the rows of equal users
TieOrders == {f \in [1..Cardinality(Users) -> Users] :
                 \A i, j \in 1..Cardinality(Users) : i # j => f[i] # f[j]}

CanRead ==
    /\ last.op \notin ReadOps
    /\ \A t \in Tasks : tasks[t].pc = "idle"

\* the read runs to its return on the committed store
ReadOutcome(op, u, g, limit, tie) ==
    RunCall(impl, World(users, transactions, txseq,
                        [NewCall(impl, op, u, g, 0, NoAdmin, "", users, transactions)
                            EXCEPT !.limit = limit, !.tie = tie]))

get_user_points_call(u, g) ==
    /\ CanRead
    /\ LET r == ReadOutcome("get_user_points", u, g, 0, <<>>) IN
        /\ users' = r.users
        /\ transactions' = r.txs
        /\ txseq' = r.seq
        /\ last' = Returned(r.p, "ok")
    /\ UNCHANGED <<impl, cmdVars, tasks, ncalls, base, batch>>
    /\ UNCHANGED roleVars

get_user_position(u, g) ==
    /\ CanRead
    /\ LET r == ReadOutcome("get_user_position", u, g, 0, <<>>) IN
        /\ users' = r.users
        /\ transactions' = r.txs
        /\ txseq' = r.seq
        /\ last' = Returned(r.p, "ok")
    /\ UNCHANGED <<impl, cmdVars, tasks, ncalls, base, batch>>
    /\ UNCHANGED roleVars

get_leaderboard(g, limit, tie) ==
    /\ CanRead
    /\ LET r == ReadOutcome("get_leaderboard", 0, g, limit, tie) IN
        /\ users' = r.users
        /\ transactions' = r.txs
        /\ txseq' = r.seq
        /\ last' = Returned(r.p, "ok")
    /\ UNCHANGED <<impl, cmdVars, tasks, ncalls, base, batch>>
    /\ UNCHANGED roleVars

get_guild_stats(g) ==
    /\ CanRead
    /\ LET r == ReadOutcome("get_guild_stats", 0, g, 0, <<>>) IN
        /\ users' = r.users
        /\ transactions' = r.txs
        /\ txseq' = r.seq
        /\ last' = Returned(r.p, "ok")
    /\ UNCHANGED <<impl, cmdVars, tasks, ncalls, base, batch>>
    /\ UNCHANGED roleVars

get_user_transactions(u, g, limit) ==
    /\ CanRead
    /\ impl = "database"
    /\ LET r == ReadOutcome("get_user_transactions", u, g, limit, <<>>) IN
        /\ users' = r.users
        /\ transactions' = r.txs
        /\ txseq' = r.seq
        /\ last' = Returned(r.p, "ok")
    /\ UNCHANGED <<impl, cmdVars, tasks, ncalls, base, batch>>
    /\ UNCHANGED roleVars

\* a reset that is one of the MaxCalls calls
reset_among_calls(g) ==
    /\ CanCall("reset_guild_points", 0, NoAdmin)
    /\ reset_guild_points(g)

\* the calls are those an admin makes (the ones the commands make)
NextRead ==
    \/ \E u \in Users, g \in Guilds, a \in Amounts, ad \in {AdminId}, r \in Reasons :
          add_points(u, g, a, ad, r)
    \/ \E u \in Users, g \in Guilds, a \in Amounts, ad \in {AdminId}, r \in Reasons :
          remove_points(u, g, a, ad, r)
    \/ \E u \in Users, g \in Guilds, a \in SetAmounts, ad \in {AdminId}, r \in Reasons :
          set_points(u, g, a, ad, r)
    \/ \E g \in Guilds : reset_among_calls(g)
    \/ \E u \in Users, g \in ReadGuilds : get_user_points_call(u, g)
    \/ \E u \in Users, g \in ReadGuilds : get_user_position(u, g)
    \/ \E g \in ReadGuilds, n \in Limits, tie \in TieOrders : get_leaderboard(g, n, tie)
    \/ \E g \in ReadGuilds : get_guild_stats(g)
    \/ \E u \in Users, g \in ReadGuilds, n \in Limits : get_user_transactions(u, g, n)

SpecRead == Init /\ [][NextRead]_vars

----------------------------------------------------------------------------
(* src/database.py: overlapping calls that record a transaction, and the    *)
(* history read once they have returned                                      *)

StartLogged(t) ==
    \E op \in {"add_points", "remove_points", "set_points"}, u \in ConcUsers, g \in ConcGuilds,
       a \in SetAmounts \cup {0}, r \in Reasons :
        Start(t, op, u, g, a, AdminId, r)

NextHist ==
    \/ \E t \in Tasks : StartLogged(t)
    \/ \E t \in Tasks : Step(t)
    \/ \E u \in ConcUsers, g \in ConcGuilds, n \in Limits : get_user_transactions(u, g, n)

SpecHist == InitDatabase /\ [][NextHist]_vars

----------------------------------------------------------------------------
(* The two Database classes side by side: every call is made on the ledger  *)
(* of src/database.py (users, transactions) and, with the same arguments,   *)
(* on a ledger of src/main.py (twin).  Calls run one at a time, with an     *)
(* actor.                                                                    *)

MaxPairCalls == 3
PairGuilds == {1}

CanPair ==
    /\ impl = "database"
    /\ ncalls < MaxPairCalls
    /\ \A t \in Tasks : tasks[t].pc = "idle"

\* the same call on the ledger of src/main.py
TwinOutcome(op, u, g, amount, admin, reason) ==
    LET r == RunCall("main", World(twin.users, twin.txs, twin.seq,
                                   [NewCall("main", op, u, g, amount, admin, reason,
                                            twin.users, twin.txs)
                                       EXCEPT !.began = ncalls + 1]))
    IN [users |-> r.users, txs |-> r.txs, seq |-> r.seq, ret |-> r.p.ret]

Paired(op, u, g, amount, admin, reason) ==
    /\ CanPair
    /\ LET r == Outcome(op, u, g, amount, admin, reason) IN
        /\ users' = r.users
        /\ transactions' = r.txs
        /\ txseq' = r.seq
        /\ last' = Returned(r.p, "ok")
    /\ twin' = TwinOutcome(op, u, g, amount, admin, reason)
    /\ ncalls' = ncalls + 1
    /\ UNCHANGED <<impl, tasks, base, batch, roleVars, view, event, cors, chanVars>>

both_add_points(u, g, amount, admin, reason) ==
    Paired("add_points", u, g, amount, admin, reason)

both_remove_points(u, g, amount, admin, reason) ==
    Paired("remove_points", u, g, amount, admin, reason)

both_set_points(u, g, amount, admin, reason) ==
    Paired("set_points", u, g, amount, admin, reason)

NextPair ==
    \/ \E u \in Users, g \in PairGuilds, a \in Amounts, r \in Reasons :
          both_add_points(u, g, a, AdminId, r)
    \/ \E u \in Users, g \in PairGuilds, a \in Amounts, r \in Reasons :
          both_remove_points(u, g, a, AdminId, r)
    \/ \E u \in Users, g \in PairGuilds, a \in {0} \cup Amounts, r \in Reasons :
          both_set_points(u, g, a, AdminId, r)

SpecPair == InitDatabase /\ [][NextPair]_vars

----------------------------------------------------------------------------
(* Table role_settings of src/database.py *)

RolePoints == {50, 100}
RoleNames == {"raider newgen", "raider scout"}
RoleColors == {"#2ecc71", "#3498db"}

RoleRow(guild_id, points_required, role_name, role_color) ==
    [guild_id |-> guild_id, points_required |-> points_required,
     role_name |-> role_name, role_color |-> role_color]

\* INSERT INTO role_settings without the ON CONFLICT clause, on a table
\* without the primary key
insert_role_setting(rs, guild_id, points_required, role_name, role_color) ==
    rs \cup {RoleRow(guild_id, points_required, role_name, role_color)}

\* INSERT INTO role_settings ... ON CONFLICT (guild_id, points_required)
\* DO UPDATE SET role_name = EXCLUDED.role_name, role_color = EXCLUDED.role_color
upsert_role_setting(rs, guild_id, points_required, role_name, role_color) ==
    {r \in rs : ~(r.guild_id = guild_id /\ r.points_required = points_required)}
        \cup {RoleRow(guild_id, points_required, role_name, role_color)}

\* SELECT points_required, role_name, role_color FROM role_settings WHERE
\* guild_id = $1 ORDER BY points_required, gathered in the dict roles
select_role_settings(rs, guild_id) ==
    LET rows == {r \in rs : r.guild_id = guild_id} IN
    [q \in {r.points_required : r \in rows} |->
        LET row == CHOOSE r \in rows : r.points_required = q IN
        [name |-> row.role_name, color |-> row.role_color]]

set_role_setting(guild_id, points_required, role_name, role_color) ==
    /\ impl = "database"
    /\ role_settings' = upsert_role_setting(role_settings, guild_id, points_required,
                                            role_name, role_color)
    /\ rcall' = [NoRCall EXCEPT !.op = "set_role_setting", !.guild_id = guild_id,
                                !.points_required = points_required,
                                !.role_name = role_name, !.role_color = role_color,
                                !.settings0 = role_settings]
    /\ UNCHANGED <<impl, cmdVars, users, transactions, txseq, tasks, last, ncalls, base, batch,
                   member_roles, guild_roles, scan>>

get_role_settings(guild_id) ==
    /\ impl = "database"
    /\ rcall' = [NoRCall EXCEPT !.op = "get_role_settings", !.guild_id = guild_id,
                                !.settings0 = role_settings,
                                !.ret = select_role_settings(role_settings, guild_id)]
    /\ UNCHANGED <<impl, cmdVars, users, transactions, txseq, tasks, last, ncalls, base, batch,
                   member_roles, guild_roles, role_settings, scan>>

\* the list default_roles of init_default_roles
default_roles ==
    <<[points |-> 50, name |-> "raider newgen", color |-> "#2ecc71"],
      [points |-> 100, name |-> "raider scout", color |-> "#3498db"],
      [points |-> 150, name |-> "raider striker", color |-> "#e67e22"],
      [points |-> 350, name |-> "raider legend", color |-> "#9b59b6"],
      [points |-> 500, name |-> "raider commander", color |-> "#f1c40f"]>>

\* the loop without its test `if points not in current_roles`
RECURSIVE upsert_all_defaults(_, _, _, _)
upsert_all_defaults(rs, guild_id, current_roles, todo) ==
    IF todo = <<>> THEN rs
    ELSE upsert_all_defaults(
            upsert_role_setting(rs, guild_id, todo[1].points, todo[1].name, todo[1].color),
            guild_id, current_roles, Tail(todo))

\* `for points, name, color in default_roles: if points not in current_roles:
\* await self.set_role_setting(guild_id, points, name, color)`
RECURSIVE insert_missing_defaults(_, _, _, _)
insert_missing_defaults(rs, guild_id, current_roles, todo) ==
    IF todo = <<>> THEN rs
    ELSE insert_missing_defaults(
            IF todo[1].points \notin DOMAIN current_roles
                THEN upsert_role_setting(rs, guild_id, todo[1].points, todo[1].name,
                                         todo[1].color)
                ELSE rs,
            guild_id, current_roles, Tail(todo))

\* the table a call of init_default_roles(guild_id) leaves
defaults_initialized(rs, guild_id) ==
    insert_missing_defaults(rs, guild_id, select_role_settings(rs, guild_id), default_roles)

\* init_default_roles, run with no other write to role_settings in between
init_default_roles(guild_id) ==
    /\ impl = "database"
    /\ role_settings' = defaults_initialized(role_settings, guild_id)
    /\ rcall' = [NoRCall EXCEPT !.op = "init_default_roles", !.guild_id = guild_id,
                                !.settings0 = role_settings]
    /\ UNCHANGED <<impl, cmdVars, users, transactions, txseq, tasks, last, ncalls, base, batch,
                   member_roles, guild_roles, scan>>

NextRoles ==
    \/ \E g \in Guilds, q \in RolePoints, n \in RoleNames, c \in RoleColors :
          set_role_setting(g, q, n, c)
    \/ \E g \in Guilds : get_role_settings(g)
    \/ \E g \in Guilds : init_default_roles(g)

SpecRoles == InitDatabase /\ [][NextRoles]_vars

----------------------------------------------------------------------------
(* Properties *)

LastKey == <<last.u, last.g>>
Quiet == \A t \in Tasks : ~InFlight(t)

\* a transactions row without its id
Bare(r) == [user |-> r.user, guild |-> r.guild, amount |-> r.amount,
            admin |-> r.admin, reason |-> r.reason]
Strip(txs) == [i \in DOMAIN txs |-> Bare(txs[i])]

\* the call that just returned appended exactly one row, with this amount
AppendedOne(amount) ==
    /\ Len(transactions) = Len(last.txs0) + 1
    /\ SubSeq(transactions, 1, Len(last.txs0)) = last.txs0
    /\ Bare(transactions[Len(transactions)]) =
          [user |-> last.u, guild |-> last.g, amount |-> amount,
           admin |-> last.admin, reason |-> last.reason]

C2_DebitClamp ==
    (last.op = "remove_points" /\ last.status = "ok" /\ get_user_points(last.users0, LastKey) > 0) =>
        LET b == get_user_points(last.users0, LastKey)
            amount_applied == Min(last.amount, b) IN
        /\ get_user_points(users, LastKey) = b - amount_applied
        /\ AppendedOne(0 - amount_applied)

\* C3: Credit. add_points(u, g, amount) with amount > 0 creates the account
\* if absent, adds exactly amount, appends exactly one transaction with
\* +amount, the given actor (possibly absent) and reason, and returns the
\* resulting balance.
C3_Credit ==
    (last.op = "add_points" /\ last.status = "ok") =>
        /\ LastKey \in DOMAIN users
        /\ users[LastKey] = get_user_points(last.users0, LastKey) + last.amount
        /\ AppendedOne(last.amount)
        /\ last.ret = users[LastKey]

\* C4: Set transaction. set_points(u, g, amount) appends exactly one
\* transaction with amount new_value - old_value when that difference is not
\* zero, and no transaction when the balance already equals amount.
C4_SetTransaction ==
    (last.op = "set_points" /\ last.status = "ok") =>
        LET old_value == get_user_points(last.users0, LastKey)
            new_value == get_user_points(users, LastKey) IN
        IF new_value - old_value # 0
          THEN AppendedOne(new_value - old_value)
          ELSE transactions = last.txs0

\* C5: Balance and log agree. After any sequence of completed calls, the
\* amounts of an account's transactions (those recorded since the guild's
\* last reset, which deletes the earlier ones) sum to the account's balance.
C5_BalanceLogAgree ==
    \A k \in Keys : SumAmounts(TxOf(transactions, k)) = get_user_points(users, k)

\* C6: Atomicity towards readers. No committed state, which a concurrent
\* reader may observe, holds the balance change of a call in flight without
\* its transaction row, the row without the balance change, or a reset that
\* has deleted the accounts but not the transactions.
C6_AtomicToReaders ==
    \A t \in Tasks :
        InFlight(t) => tasks[t].applied \notin {{"users"}, {"transactions"}}

\* the committed store after the calls of cs run one after the other
RECURSIVE RunSeq(_, _, _)
RunSeq(im, st, cs) ==
    IF cs = <<>> THEN st
    ELSE LET r == RunCall(im, World(st.users, st.txs, 0,
                                    [cs[1] EXCEPT !.pc = FirstPc(im, cs[1].op)])) IN
         RunSeq(im, [users |-> r.users, txs |-> r.txs], Tail(cs))

Perms(n) == {f \in [1..n -> 1..n] : \A i, j \in 1..n : i # j => f[i] # f[j]}

\* C7: Per-account serialization. When overlapping calls have all returned,
\* the balances and the transactions recorded are those of some serial
\* execution of the same calls.
C7_Serializable ==
    (/\ Quiet
     /\ \A i \in DOMAIN batch :
           /\ batch[i].op \in {"add_points", "remove_points", "set_points"}
           /\ KeyOf(batch[i]) = KeyOf(batch[1])) =>
        \E f \in Perms(Len(batch)) :
            LET st == RunSeq(impl, base, [i \in 1..Len(batch) |-> batch[f[i]]]) IN
            /\ st.users = users
            /\ Strip(st.txs) = Strip(transactions)

\* C8: Atomicity under storage failure. A call in which a storage call
\* failed reports the failure and leaves balances and transactions exactly
\* as they were before the call.
C8_FailureAtomic ==
    (Quiet /\ last.status = "failed") =>
        /\ users = last.users0
        /\ transactions = last.txs0

\* C9: Zero-applied debit. remove_points with amount > 0 on a balance of 0,
\* or on a (user, guild) without account, records no transaction, returns 0,
\* creates no account and leaves the store unchanged.
C9_ZeroDebit ==
    (last.op = "remove_points" /\ last.status = "ok" /\ get_user_points(last.users0, LastKey) = 0) =>
        /\ transactions = last.txs0
        /\ users = last.users0
        /\ last.ret = 0

\* C10: Set result. set_points(u, g, amount) creates the account if absent,
\* stores max(0, amount) and returns the new balance, the value a
\* get_user_points issued right after the call returns.
C10_SetResult ==
    (last.op = "set_points" /\ last.status = "ok") =>
        /\ LastKey \in DOMAIN users
        /\ users[LastKey] = Max(0, last.amount)
        /\ last.ret = get_user_points(users, LastKey)

\* C11: Invalid amounts. add_points and remove_points called with
\* amount <= 0, and set_points called with amount < 0 where negative amounts
\* are rejected (src/main.py), end in a failure reported to the caller and
\* create or change no account and no transaction.
C11_InvalidAmount ==
    (\/ last.op \in {"add_points", "remove_points"} /\ last.amount <= 0
     \/ last.op = "set_points" /\ last.amount < 0 /\ impl = "main") =>
        /\ last.status = "invalid_amount"
        /\ users = last.users0
        /\ transactions = last.txs0

\* the thresholds of a table that a balance reaches
Reached(table, points) == {q \in DOMAIN table : q <= points}

\* C12: Role selection. For every balance and every threshold table the role
\* chosen is the name of the largest threshold <= balance, and no role when
\* the table is empty or the balance is below the smallest threshold; the
\* ascending scan of check_and_assign_roles and the descending scan of the
\* leaderboard command choose the same role.
C12_RoleSelection ==
    scan.state = "done" =>
        IF Reached(scan.table, scan.points) = {}
          THEN /\ scan.target_role_name = NoTarget
               /\ scan.user_role = NoRoleLabel
          ELSE LET m == CHOOSE q \in Reached(scan.table, scan.points) :
                            \A o \in Reached(scan.table, scan.points) : o <= q IN
               /\ scan.target_role_name = scan.table[m]
               /\ scan.user_role = scan.table[m]

\* C12 witness: both scans ran over ROLE_SETTINGS for a balance between two
\* thresholds, above more than one of them
C12_Witness ==
    /\ scan.state = "done"
    /\ scan.table = ROLE_SETTINGS
    /\ scan.points = 349
    /\ scan.target_role_name = "raider striker"
    /\ scan.user_role = "raider striker"

\* select_role of the specification: the name of the largest threshold
\* <= balance, as a set of tier roles (empty when no threshold is reached)
TierOf(table, points) ==
    IF Reached(table, points) = {} THEN {}
    ELSE {table[CHOOSE q \in Reached(table, points) :
                    \A o \in Reached(table, points) : o <= q]}

\* C13: Tier state machine. After a completed addpoints, removepoints,
\* setpoints or confirmed resetpoints in which Discord refused no role call,
\* the tier roles a member holds are exactly the role selected for the new
\* balance: none when the balance is below the lowest threshold, also after
\* a fall of several tiers or straight to no tier.
C13_TierState ==
    /\ (last.op \in {"add_points", "remove_points", "set_points"}
        /\ last.status = "ok" /\ ~last.refused) =>
           member_roles[LastKey] = TierOf(ROLE_SETTINGS, get_user_points(users, LastKey))
    /\ (last.op = "reset_guild_points" /\ last.status = "ok") =>
           \A u \in Users :
               member_roles[<<u, last.g>>] =
                   TierOf(ROLE_SETTINGS, get_user_points(users, <<u, last.g>>))

\* C14: Reset cascade. After reset_guild_points(g) every user of g has
\* balance 0 and no transaction, the reset itself records no transaction,
\* and the accounts and transactions of every other guild are as before.
C14_ResetCascade ==
    (last.op = "reset_guild_points" /\ last.status = "ok") =>
        /\ \A k \in Keys : k[2] = last.g =>
              /\ get_user_points(users, k) = 0
              /\ TxOf(transactions, k) = <<>>
        /\ TxOfGuild(transactions, last.g) = <<>>
        /\ \A g \in Guilds \ {last.g} :
              /\ GuildKeys(users, g) = GuildKeys(last.users0, g)
              /\ \A k \in GuildKeys(users, g) : users[k] = last.users0[k]
              /\ TxOfGuild(transactions, g) = TxOfGuild(last.txs0, g)
        /\ Len(transactions) <= Len(last.txs0)

\* C14 witness: a reset of a guild that had an account with a balance and a
\* transaction, while another guild has an account and a transaction
C14_Witness ==
    /\ last.op = "reset_guild_points"
    /\ \E k \in DOMAIN last.users0 :
          k[2] = last.g /\ last.users0[k] > 0 /\ TxOf(last.txs0, k) # <<>>
    /\ \E k \in DOMAIN users : k[2] # last.g /\ users[k] > 0 /\ TxOf(transactions, k) # <<>>
    /\ GuildKeys(users, last.g) = {}

\* C15: Rank. get_user_position(u, g) returns a 1-based rank that is greater
\* than the number of accounts of g whose balance is strictly greater than
\* the balance of u; a user without account is ranked as a balance of 0, so
\* that its rank is at least 1 + the number of accounts of g with balance > 0.
C15_Rank ==
    (last.op = "get_user_position" /\ last.status = "ok") =>
        /\ last.ret >= 1
        /\ last.ret > Cardinality({k \in GuildKeys(users, last.g) :
                                      users[k] > get_user_points(users, LastKey)})

\* C16: Leaderboard. get_leaderboard(g, limit) returns min(limit, number of
\* accounts of g) entries, each an account of g with its balance, in
\* non-increasing order of balance, and no account left out has a balance
\* larger than a listed one; accounts with balance 0 are listed when limit
\* allows.
C16_Leaderboard ==
    (last.op = "get_leaderboard" /\ last.status = "ok") =>
        LET ks == GuildKeys(users, last.g)
            listed == {<<last.rows[i].user_id, last.g>> : i \in DOMAIN last.rows} IN
        /\ Len(last.rows) = Min(last.limit, Cardinality(ks))
        /\ Cardinality(listed) = Len(last.rows)
        /\ \A i \in DOMAIN last.rows :
              /\ <<last.rows[i].user_id, last.g>> \in ks
              /\ last.rows[i].points = users[<<last.rows[i].user_id, last.g>>]
        /\ \A i, j \in DOMAIN last.rows : i < j => last.rows[i].points >= last.rows[j].points
        /\ \A k \in ks \ listed : \A i \in DOMAIN last.rows : users[k] <= last.rows[i].points

\* C17: Reads do not create state. get_user_points for a (user, guild)
\* without account returns 0 and creates no account; get_user_points,
\* get_user_position, get_leaderboard, get_guild_stats and
\* get_user_transactions leave every account and every transaction as it was.
C17_ReadsCreateNothing ==
    (last.op \in ReadOps /\ last.status = "ok") =>
        /\ users = last.users0
        /\ transactions = last.txs0
        /\ role_settings = {}
        /\ (last.op = "get_user_points" /\ LastKey \notin DOMAIN last.users0) =>
              /\ last.ret = 0
              /\ LastKey \notin DOMAIN users

\* C17 witness: get_user_points was asked for a user without account while
\* the guild holds an account and a transaction of another user
C17_Witness ==
    /\ last.op = "get_user_points"
    /\ LastKey \notin DOMAIN users
    /\ last.ret = 0
    /\ GuildKeys(users, last.g) # {}
    /\ TxOfGuild(transactions, last.g) # <<>>

\* the columns get_user_transactions returns of a row
Shown(r) == [amount |-> r.amount, reason |-> r.reason, admin_id |-> r.admin,
             created_at |-> r.created_at]

\* C18: Transaction history. get_user_transactions(u, g, limit) returns only
\* transactions of (u, g), at most limit of them, most recent first: the
\* transaction appended by a later completed call precedes the one appended
\* by an earlier call, and the ones returned are the most recent ones.
C18_History ==
    (last.op = "get_user_transactions" /\ last.status = "ok") =>
        LET all == TxOf(transactions, LastKey)
            m == Min(last.limit, Len(all)) IN
        /\ Len(last.rows) = m
        /\ \A i \in 1..m : last.rows[i] = Shown(all[Len(all) + 1 - i])

\* C19: Threshold table. In every reachable state role_settings holds at
\* most one row for a (guild_id, points_required); set_role_setting for a
\* pair that has a row overwrites its name and colour and changes no other row.
C19_ThresholdTable ==
    /\ \A r1, r2 \in role_settings :
          (r1.guild_id = r2.guild_id /\ r1.points_required = r2.points_required) => r1 = r2
    /\ rcall.op = "set_role_setting" =>
          /\ RoleRow(rcall.guild_id, rcall.points_required, rcall.role_name, rcall.role_color)
                \in role_settings
          /\ \A r \in role_settings \cup rcall.settings0 :
                (r.guild_id # rcall.guild_id \/ r.points_required # rcall.points_required) =>
                    (r \in role_settings <=> r \in rcall.settings0)

\* C19 witness: set_role_setting gave another name and another colour to a
\* threshold that had a row, in a table with a second row
C19_Witness ==
    /\ rcall.op = "set_role_setting"
    /\ \E r \in rcall.settings0 :
          /\ r.guild_id = rcall.guild_id /\ r.points_required = rcall.points_required
          /\ r.role_name # rcall.role_name /\ r.role_color # rcall.role_color
    /\ \E r \in rcall.settings0 :
          r.guild_id = rcall.guild_id /\ r.points_required # rcall.points_required
    /\ Cardinality(role_settings) = Cardinality(rcall.settings0)

IsPrefix(s, t) == Len(s) <= Len(t) /\ SubSeq(t, 1, Len(s)) = s

\* C20: Append-only log. A recorded transaction is never modified or removed
\* by add_points, remove_points, set_points or a read; as long as the guild
\* of an account is not reset, the transactions of the account only grow by
\* appending.
C20_AppendOnly ==
    /\ (last.op \in {"add_points", "remove_points", "set_points"} \cup ReadOps
        /\ last.status = "ok") => IsPrefix(last.txs0, transactions)
    /\ \A k \in Keys :
          (last.status = "ok" /\ ~(last.op = "reset_guild_points" /\ last.g = k[2])) =>
              IsPrefix(TxOf(last.txs0, k), TxOf(transactions, k))

\* C20 witness: a call appended a transaction to an account that had one,
\* while another account has transactions too
C20_Witness ==
    /\ last.op \in {"add_points", "remove_points", "set_points"}
    /\ TxOf(last.txs0, LastKey) # <<>>
    /\ Len(TxOf(transactions, LastKey)) = Len(TxOf(last.txs0, LastKey)) + 1
    /\ IsPrefix(last.txs0, transactions)

\* C21: Account independence. add_points, remove_points and set_points on
\* (u, g) leave the balance and the transactions of every other account as
\* they were, for another user of g and for u in another guild.
C21_AccountIndependence ==
    (last.op \in {"add_points", "remove_points", "set_points"} /\ last.status = "ok") =>
        \A k \in Keys \ {LastKey} :
            /\ (k \in DOMAIN users) <=> (k \in DOMAIN last.users0)
            /\ get_user_points(users, k) = get_user_points(last.users0, k)
            /\ TxOf(transactions, k) = TxOf(last.txs0, k)

\* C21 witness: a call changed the balance of (u, g) while an account of the
\* same user in another guild, or of another user in g, holds points and a
\* transaction
C21_Witness ==
    /\ last.op \in {"add_points", "remove_points", "set_points"}
    /\ get_user_points(users, LastKey) # get_user_points(last.users0, LastKey)
    /\ \E k \in (DOMAIN users) \ {LastKey} :
          /\ k[1] = last.u \/ k[2] = last.g
          /\ users[k] > 0
          /\ TxOf(transactions, k) # <<>>

\* C22: Confirmed reset only. resetpoints calls reset_guild_points only on a
\* click on the confirm button by the author of the command; a click by
\* another user, a click on cancel, or the timeout without a click changes
\* no balance and no transaction.
C22_ConfirmedReset ==
    [][/\ (ncalls' # ncalls /\ last'.op = "reset_guild_points") =>
            /\ view.cmd = "resetpoints" /\ view.state = "open"
            /\ event'.kind = "confirm" /\ event'.user = view.author
       /\ (\/ event'.kind \in {"cancel", "timeout"}
           \/ event'.kind = "confirm" /\ event'.user # view.author) =>
            UNCHANGED <<users, transactions>>]_vars

\* C22 witness: somebody else pressed confirm on the open warning of
\* resetpoints while the guild holds balances and transactions
C22_Witness ==
    /\ view.cmd = "resetpoints" /\ view.state = "open"
    /\ event.kind = "confirm" /\ event.user # view.author
    /\ \E k \in DOMAIN users : k[2] = view.guild /\ users[k] > 0
    /\ transactions # <<>>

\* C25: Failed grant keeps the old tier. When check_and_assign_roles cannot
\* give the member the target role (create_role fails, or add_roles raises),
\* the member holds the tier roles held before the call.
C25_FailedGrant ==
    (/\ event.kind = "command"
     /\ last.op \in {"add_points", "remove_points", "set_points"}
     /\ last.status = "ok"
     /\ target_role(ROLE_SETTINGS, get_user_points(users, LastKey)) # NoTarget
     /\ target_role(ROLE_SETTINGS, get_user_points(users, LastKey)) \notin member_roles[LastKey])
        => member_roles[LastKey] = last.held0

\* C24: At most one tier role. With every call to Discord succeeding, once
\* the addpoints/removepoints/setpoints commands on a member have run to
\* their end, overlapping or not, the member holds at most one role named
\* in ROLE_SETTINGS.
C24_AtMostOneTier ==
    (\A t \in Tasks : cors[t].pc = "idle") =>
        \A k \in Keys : Cardinality(member_roles[k] \cap TierNames) <= 1

\* C26: Lock record matches applied permission. After
\* lock_all_channels_in_list(guild, role, lock_type) returns, a listed channel
\* it reports with a permission error has no locked_channels row
\* (guild, channel, role) created by that call.
C26_LockRecord ==
    lcall.op = "lockchannels" =>
        \A c \in Channels :
            (/\ lcall.results[c] = "permission_error"
             /\ ~\E x \in lcall.locked0 :
                    x.guild_id = lcall.guild /\ x.channel_id = c /\ x.role_id = lcall.role)
            => ~\E x \in locked_channels :
                    x.guild_id = lcall.guild /\ x.channel_id = c /\ x.role_id = lcall.role

\* C27: Lock/unlock round trip. lockchannels(role, lock_type) followed at once
\* by unlockchannels(role), the channels being known to the guild as they
\* were, leaves no locked_channels row of that role on a channel that
\* lock_all_channels_in_list locked.
C27_RoundTrip ==
    (/\ lcall.op = "unlockchannels" /\ lcall.role # NoRole
     /\ lcall.before.op = "lockchannels" /\ lcall.before.role = lcall.role
     /\ lcall.before.channels0 = lcall.channels0)
        => \A c \in Channels :
              lcall.before.results[c] = "locked" =>
                ~\E x \in locked_channels :
                    x.guild_id = lcall.guild /\ x.channel_id = c /\ x.role_id = lcall.role

\* C28: clearlocks removes what it deletes. After the author confirms
\* clearlocks no locked_channels row of the guild remains, and for every row
\* the confirmation deleted whose channel the guild still knows, the
\* permission overwrite of that role on that channel has been reset, also
\* when a lockchannels command added rows between the command and the click.
\* (Stated for a confirmation whose set_permissions calls all succeed.)
C28_ClearLocks ==
    (lcall.op = "clearlocks_confirm" /\ lcall.succeeded) =>
        /\ get_channel_locks(locked_channels, lcall.guild) = {}
        /\ \A x \in get_channel_locks(lcall.locked0, lcall.guild) :
              get_channel(x.channel_id) => overwrites[<<x.channel_id, x.role_id>>] = {}

\* C23: Admin gating. A step of a command that changes a balance, a
\* transaction, the channel list, a lock row or a permission overwrite is the
\* step of an invocation (or of the confirmation click) of a member who has
\* the administrator permission or holds a role of ADMIN_ROLE_IDS; the
\* invocation of any other member changes none of them.
C23_AdminGating ==
    [][/\ (<<users, transactions, channel_list, locked_channels, overwrites>>'
              # <<users, transactions, channel_list, locked_channels, overwrites>>) =>
            /\ event'.kind \in {"command", "confirm"}
            /\ event'.cmd \in GatedCommands
            /\ \/ event'.user \in administrator
               \/ author_role_ids(event'.user) \cap ADMIN_ROLE_IDS # {}
       /\ (/\ event' # event
           /\ event'.kind \in {"command", "check_failure"}
           /\ event'.user \notin administrator
           /\ author_role_ids(event'.user) \cap ADMIN_ROLE_IDS = {}) =>
            UNCHANGED <<users, transactions, channel_list, locked_channels, overwrites, view>>
      ]_vars

\* C23 witness: a member with neither the permission nor an admin role
\* invoked a command while the guild holds a listed channel and a lock, and
\* was answered by on_command_error
C23_Witness ==
    /\ event.kind = "check_failure" /\ event.user = PlainId
    /\ channel_list # {}
    /\ locked_channels # {}

\* a row of the list default_roles, for this guild
IsDefaultRow(r, guild_id) ==
    \E i \in DOMAIN default_roles :
        r = RoleRow(guild_id, default_roles[i].points, default_roles[i].name,
                    default_roles[i].color)

\* C29: Default thresholds. init_default_roles(g) adds a default row only for
\* a points_required value of (50, 100, 150, 350, 500) that has no row in g,
\* keeps every row that was there with its name and colour, leaves the other
\* guilds unchanged, and a second call right after it changes nothing.
C29_DefaultThresholds ==
    rcall.op = "init_default_roles" =>
        /\ \A r \in role_settings \ rcall.settings0 :
              /\ IsDefaultRow(r, rcall.guild_id)
              /\ ~\E o \in rcall.settings0 :
                    o.guild_id = rcall.guild_id /\ o.points_required = r.points_required
        /\ rcall.settings0 \subseteq role_settings
        /\ {r \in role_settings : r.guild_id # rcall.guild_id}
              = {r \in rcall.settings0 : r.guild_id # rcall.guild_id}
        /\ defaults_initialized(role_settings, rcall.guild_id) = role_settings

\* C29 witness: init_default_roles added rows to a guild that had its own
\* name and colour on threshold 50, while the other guild has a row
C29_Witness ==
    /\ rcall.op = "init_default_roles"
    /\ role_settings # rcall.settings0
    /\ \E o \in rcall.settings0 :
          /\ o.guild_id = rcall.guild_id /\ o.points_required = 50
          /\ o.role_name # "raider newgen" /\ o.role_color # "#2ecc71"
    /\ \E o \in rcall.settings0 : o.guild_id # rcall.guild_id

\* C30: The two ledgers agree on balances. For every sequence of add_points
\* (amount >= 1), remove_points (amount >= 1) and set_points (amount >= 0)
\* calls, each with an actor and run one at a time, the Database of
\* src/database.py and the Database of src/main.py return the same value from
\* each call and hold the same balance for every (user, guild) after it.
C30_LedgersAgree ==
    last.op \in {"add_points", "remove_points", "set_points"} =>
        /\ last.ret = twin.ret
        /\ \A k \in Keys : get_user_points(users, k) = get_user_points(twin.users, k)

\* C30 witness: both classes ran a remove_points of more than the balance on
\* an account that held points, after another call
C30_Witness ==
    /\ last.op = "remove_points"
    /\ twin.txs # <<>> /\ Len(twin.txs) >= 2
    /\ get_user_points(last.users0, LastKey) > 0
    /\ last.amount > get_user_points(last.users0, LastKey)

====
